---------------------------- MODULE Spec2Model ----------------------------
(***************************************************************************)
(* Model of the order lifecycle orchestrator of ms-pedidos                 *)
(* (src/src/services/pedido.py) together with its two entry paths: the     *)
(* REST routes (src/src/routes/pedido.py) and the Pub/Sub push dispatcher  *)
(* (src/src/routes/pubsub.py).                                             *)
(*                                                                         *)
(* One request may be in flight on each entry path.  A request advances    *)
(* through the statements of the service method it runs; the steps are     *)
(* cut at the points where the method touches something outside itself:    *)
(* the database (SELECT in _ensure, commit + refresh) and the gateway      *)
(* (one step per MsClient.post).  Between two such points the code is      *)
(* local to the request and is executed inside the step that follows it.   *)
(***************************************************************************)
EXTENDS Naturals, Sequences, FiniteSets, TLC

(***************************************************************************)
(* Bounds and input domains                                                *)
(***************************************************************************)
\* largest number of lines of an order
MaxItems == 2

\* largest number of rows of table pedido
MaxPedidos == 1
\* the receipts of one line the inventory service is followed through
MaxEntradas == 2

\* order ids (uuid4 values), numbered in the order in which they are drawn;
\* a request may name any of them, whether or not the row exists
PedidoIds == 1..MaxPedidos

\* the two entry paths of the service
Paths == {"api", "pubsub"}

\* None of a string column or of a string id; None of an order id is 0
Nulo == ""

(***************************************************************************)
(* src/src/domain/enums.py                                                 *)
(***************************************************************************)
COMPRA == "COMPRA"
VENTA == "VENTA"
PedidoTipo == {COMPRA, VENTA}

BORRADOR == "BORRADOR"
PENDIENTE_APROBACION == "PENDIENTE_APROBACION"
APROBADO == "APROBADO"
EN_TRANSITO == "EN_TRANSITO"
RECIBIDO == "RECIBIDO"
DESPACHADO == "DESPACHADO"
CANCELADO == "CANCELADO"
PedidoEstado ==
    {BORRADOR, PENDIENTE_APROBACION, APROBADO, EN_TRANSITO, RECIBIDO,
     DESPACHADO, CANCELADO}

\* the comments of the enum: EN_TRANSITO and RECIBIDO "solo COMPRA",
\* DESPACHADO "solo VENTA"
EstadosDeTipo(tipo) ==
    IF tipo = COMPRA THEN PedidoEstado \ {DESPACHADO}
    ELSE PedidoEstado \ {EN_TRANSITO, RECIBIDO}

(***************************************************************************)
(* Order lines.  The line at position k of an n-line order is for product  *)
(* k and carries quantity n-k+1, so that the position, the product and the *)
(* quantity of a line can be told apart in every gateway call.  An         *)
(* optional decimal is <<>> (None) or <<v>>; a price v is a whole amount   *)
(* and a percentage a whole number.  The first line has a price, a         *)
(* discount and a tax; the others a price only.                            *)
(***************************************************************************)
ItemsDe(n) ==
    [k \in 1..n |->
        [producto_id |-> k, cantidad |-> (n - k) + 1,
         precio_unitario |-> <<50 * k>>,
         descuento_pct |-> IF k = 1 THEN <<10>> ELSE <<>>,
         impuesto_pct |-> IF k = 1 THEN <<19>> ELSE <<>>]]
ItemLists == {ItemsDe(n) : n \in 0..MaxItems}

(***************************************************************************)
(* src/src/domain/models.py: the rows of pedido (with its pedido_item      *)
(* rows as the sequence items) and of pedido_evento.  existe = FALSE is    *)
(* the absence of a row (db.get returns None).  creado is a history flag:  *)
(* TRUE on the rows inserted by crear.                                     *)
(***************************************************************************)
\* the kind-specific references of an order or of a payload
SinRefs ==
    [proveedor_id |-> Nulo, bodega_destino_id |-> Nulo, cliente_id |-> Nulo,
     vendedor_id |-> Nulo, bodega_origen_id |-> Nulo]
RefsCompra == [SinRefs EXCEPT !.proveedor_id = "prov1", !.bodega_destino_id = "bod1"]
RefsVenta ==
    [SinRefs EXCEPT !.cliente_id = "cli1", !.vendedor_id = "ven1",
                    !.bodega_origen_id = "bod2"]

\* the three Numeric(14,4) aggregates, in ten-thousandths; <<>> is NULL
SinTotales == [subtotal |-> <<>>, impuesto_total |-> <<>>, total |-> <<>>]

NoPedido ==
    [existe |-> FALSE, id |-> 0, codigo |-> Nulo, tipo |-> Nulo,
     estado |-> Nulo, items |-> <<>>, refs |-> SinRefs, totales |-> SinTotales,
     fecha_compromiso |-> [base |-> Nulo, mas |-> 0], oc_id |-> Nulo,
     reserva_token |-> <<>>, creado |-> FALSE]

\* Pedido(...) of crear, lines 97-109; estado has the column default too.
\* The lines and the totals are set afterwards (lines 116-130).
Pedido(id, tipo, estado, refs, fecha_compromiso, creado) ==
    [existe |-> TRUE, id |-> id,
     codigo |-> IF tipo = COMPRA THEN "PO" ELSE "SO",
     tipo |-> tipo, estado |-> estado, items |-> <<>>,
     refs |-> refs, totales |-> SinTotales,
     fecha_compromiso |-> fecha_compromiso,
     oc_id |-> Nulo, reserva_token |-> <<>>, creado |-> creado]

\* the constraint ck_pedido_refs_por_tipo of table pedido
ck_pedido_refs_por_tipo(p) ==
    \/ /\ p.tipo = COMPRA
       /\ p.refs.proveedor_id # Nulo
       /\ p.refs.bodega_destino_id # Nulo
    \/ /\ p.tipo = VENTA
       /\ p.refs.cliente_id # Nulo
       /\ p.refs.vendedor_id # Nulo
       /\ p.refs.bodega_origen_id # Nulo

\* _dec(v): Decimal(str(v)), 0 for None; in ten-thousandths
_dec(v) == IF v = <<>> THEN 0 ELSE v[1] * 10000

\* variant of calcular_totales that takes no discount off the lines
RECURSIVE calcular_totales_sin_descuento(_)
calcular_totales_sin_descuento(items) ==
    IF items = <<>> THEN [subtotal |-> <<0>>, impuesto_total |-> <<0>>, total |-> <<0>>]
    ELSE LET it == items[Len(items)]
             antes == calcular_totales_sin_descuento(SubSeq(items, 1, Len(items) - 1))
             neto == (_dec(it.precio_unitario) * it.cantidad)
             imp == (neto * (_dec(it.impuesto_pct) \div 10000)) \div 100
             sub_ == antes.subtotal[1] + neto
             imp_ == antes.impuesto_total[1] + imp
         IN  [subtotal |-> <<sub_>>, impuesto_total |-> <<imp_>>,
              total |-> <<sub_ + imp_>>]

\* calcular_totales, lines 31-39: the loop over the lines, the last line
\* added to the sums of the lines before it.  Percentages are whole
\* numbers, so every quotient by 100 is exact in ten-thousandths.
RECURSIVE calcular_totales(_)
calcular_totales(items) ==
    IF items = <<>> THEN [subtotal |-> <<0>>, impuesto_total |-> <<0>>, total |-> <<0>>]
    ELSE LET it == items[Len(items)]
             antes == calcular_totales(SubSeq(items, 1, Len(items) - 1))
             li == (_dec(it.precio_unitario) * it.cantidad)
             dsc == (li * (_dec(it.descuento_pct) \div 10000)) \div 100
             neto == li - dsc
             imp == (neto * (_dec(it.impuesto_pct) \div 10000)) \div 100
             sub_ == antes.subtotal[1] + neto
             imp_ == antes.impuesto_total[1] + imp
         IN  [subtotal |-> <<sub_>>, impuesto_total |-> <<imp_>>,
              total |-> <<sub_ + imp_>>]

\* the ctx argument of the service methods: None, a dict (what the
\* Pub/Sub handler passes) or an AuditContext object (what crear_pedido
\* passes); of its fields the model keeps country and user_id
NoCtx == [clase |-> "None", country |-> Nulo, user_id |-> Nulo]
CtxDict(country, user_id) ==
    [clase |-> "dict", country |-> country, user_id |-> user_id]

\* `if ctx`: None and the empty dict are false
Truthy(ctx) ==
    \/ ctx.clase = "AuditContext"
    \/ ctx.clase = "dict" /\ (ctx.country # Nulo \/ ctx.user_id # Nulo)

\* getattr(ctx, campo, None): the attribute of an object; a dict has keys,
\* not attributes of those names, so the default is returned
getattr(ctx, campo) ==
    IF ctx.clase = "AuditContext" THEN ctx[campo] ELSE Nulo

\* lines 296-301: the "ctx" entry of the payload of an event
CtxRegistrado(ctx) ==
    [country |-> IF Truthy(ctx) THEN getattr(ctx, "country") ELSE Nulo,
     user_id |-> IF Truthy(ctx) THEN getattr(ctx, "user_id") ELSE Nulo]

\* variant of the event that does not record the prior state
PedidoEvento_sin_de(estado, evento, de, mensaje) ==
    [estado |-> estado,
     event |-> IF evento = Nulo THEN "state_change" ELSE evento,
     from |-> Nulo, to |-> estado, message |-> mensaje,
     ctx |-> CtxRegistrado(NoCtx)]

\* the payload of PedidosService._log that the claims read: the resulting
\* state (column estado) and, inside detalle, event / from / to / message
\* and the ctx entry, here the one of a call without ctx
PedidoEvento(estado, evento, de, mensaje) ==
    [estado |-> estado,
     event |-> IF evento = Nulo THEN "state_change" ELSE evento,
     from |-> de, to |-> estado, message |-> mensaje,
     ctx |-> CtxRegistrado(NoCtx)]

\* self._log(p, estado, mensaje, ctx=ctx, evento=evento, de=de), lines
\* 269-310: the event with the ctx entry of the call
_log(ctx, estado, evento, de, mensaje) ==
    [PedidoEvento(estado, evento, de, mensaje) EXCEPT !.ctx = CtxRegistrado(ctx)]

(***************************************************************************)
(* src/src/config.py: the attributes class Settings defines that the       *)
(* service reads.  DEFAULT_COMPRA_LEAD_DAYS and DEFAULT_VENTA_LEAD_DAYS    *)
(* (services/pedido.py lines 75 and 95) are not among them.                *)
(***************************************************************************)
settings == [DEFAULT_SCHEMA |-> "co", COUNTRY_HEADER |-> "X-Country"]

(***************************************************************************)
(* The gateway client MsClient (src/infrastructure/http.py, not part of    *)
(* the sources at hand; modelled from section 4.3 and from                 *)
(* tests/test_http_client.py).  A call either returns the decoded body,    *)
(* fails on a non-2xx answer (a ValueError, test_msclient_post_error) or   *)
(* fails in the transport.                                                 *)
(***************************************************************************)
GatewayFallas == {"non2xx", "transporte"}

\* exception raised to the caller of MsClient.post for each failure
ExcepcionGateway(falla) ==
    IF falla = "non2xx" THEN [exc |-> "ValueError", msg |-> "gateway non-2xx"]
    ELSE [exc |-> "TransportError", msg |-> "gateway transporte"]

\* bodies the sibling services answer with
RespOC == {"oc1", Nulo}            \* POST /v1/ordenes-compra: id, or no id
RespFefo == {<<"a">>, <<>>}        \* POST .../salida/fefo: token, or none
RespLote == {"L1"}                 \* POST /v1/inventario/lote: id
RespUbicacion == {"U1"}            \* POST /v1/inventario/ubicacion: id

\* one call the client was asked to make; ok = it was answered 2xx; resp
\* is the token of the body it was answered with (FEFO calls)
Llamada(path, pedido, producto_id, cantidad, idx, lote_id, ubicacion_id, ok) ==
    [path |-> path, pedido |-> pedido, producto_id |-> producto_id,
     cantidad |-> cantidad, idx |-> idx, lote_id |-> lote_id,
     ubicacion_id |-> ubicacion_id, ok |-> ok, resp |-> <<>>]

P_OC == "/v1/ordenes-compra"
P_FEFO == "/v1/inventario/salida/fefo"
P_LOTE == "/v1/inventario/lote"
P_UBICACION == "/v1/inventario/ubicacion"
P_ENTRADA == "/v1/inventario/entrada"

(***************************************************************************)
(* State                                                                   *)
(*   db       the committed rows of table pedido, by id                    *)
(*   eventos  the committed rows of pedido_evento of each order, in        *)
(*            insertion order                                              *)
(*   req      the request in flight on each entry path: the position of    *)
(*            the service method (pc), its arguments, the objects of its   *)
(*            SQLAlchemy session (p, pendientes), its locals, the gateway  *)
(*            calls it has made and, at pc = "done", what it raised; for   *)
(*            a create request also the body as it was sent (cuerpo) and   *)
(*            the statements of crear executed so far (traza) and the      *)
(*            number of lead times it asked for (consultas); for a push    *)
(*            the envelope as it was sent (sobre); the schema of the       *)
(*            session the handler opened (schema, Nulo: none) and the      *)
(*            service calls the handler has made (servicio); the ctx it    *)
(*            passes to the service (ctx)                                  *)
(*   modo     "sec": a request starts only when no other is in flight;     *)
(*            "conc": the two entry paths run independently                *)
(*   entradas what the inventory service holds: for each order and line,   *)
(*            the number of receipts POST /v1/inventario/entrada has       *)
(*            registered for it                                            *)
(***************************************************************************)
VARIABLES db, eventos, req, modo, entradas

vars == <<db, eventos, req, modo, entradas>>

\* a date: a calendar date the client names (mas = 0), or today plus a
\* number of days (base = "hoy"); SinFecha is None
Fecha(base, mas) == [base |-> base, mas |-> mas]
SinFecha == Fecha(Nulo, 0)
FechaCliente == Fecha("2026-12-01", 0)

NoPayload == [tipo |-> Nulo, refs |-> SinRefs, fecha |-> SinFecha, items |-> <<>>]

\* the JSON bodies POST /v1/pedidos is sent: a kind, the references of
\* that kind (all of them, or all but the warehouse), with or without the
\* references of the other kind; fecha is fecha_recepcion (COMPRA) or
\* fecha_entrega (VENTA), SinFecha when the client leaves it out
RefsDeTipo(tipo) == IF tipo = COMPRA THEN RefsCompra ELSE RefsVenta
Bodies ==
    {[tipo |-> t, refs |-> rf, fecha |-> f, items |-> its] :
        t \in PedidoTipo,
        rf \in {RefsDeTipo(COMPRA), RefsDeTipo(VENTA),
                [RefsCompra EXCEPT !.cliente_id = "cli1", !.vendedor_id = "ven1",
                                   !.bodega_origen_id = "bod2"],
                [RefsCompra EXCEPT !.bodega_destino_id = Nulo],
                [RefsVenta EXCEPT !.bodega_origen_id = Nulo]},
        f \in {FechaCliente, SinFecha},
        its \in ItemLists}

\* schemas.PedidoCreate = Union[PedidoCompraCreate, PedidoVentaCreate]:
\* the body is valid when the required fields of the model of its tipo
\* are present; fields the model does not declare are ignored
Valida(body) ==
    IF body.tipo = COMPRA
    THEN body.refs.proveedor_id # Nulo /\ body.refs.bodega_destino_id # Nulo
    ELSE /\ body.refs.cliente_id # Nulo
         /\ body.refs.vendedor_id # Nulo
         /\ body.refs.bodega_origen_id # Nulo

\* variant of model_dump that hands the body on as it was sent
model_dump_todo(body) == body

\* body.model_dump(): the declared fields of the model of its tipo
model_dump(body) ==
    [body EXCEPT !.refs =
        IF body.tipo = COMPRA
        THEN [SinRefs EXCEPT !.proveedor_id = body.refs.proveedor_id,
                             !.bodega_destino_id = body.refs.bodega_destino_id]
        ELSE [SinRefs EXCEPT !.cliente_id = body.refs.cliente_id,
                             !.vendedor_id = body.refs.vendedor_id,
                             !.bodega_origen_id = body.refs.bodega_origen_id]]

SinError == [exc |-> Nulo, msg |-> Nulo]

\* a Pub/Sub push as POST /pubsub receives it.  forma says how far the
\* body can be decoded: "no_json" (not JSON), "no_objeto" (JSON, not an
\* object), "sin_message", "message_no_objeto" (message is not an object),
\* "sin_data", "data_invalida" (not base64 of JSON), "evento_no_objeto"
\* (the decoded JSON is not an object), "ok" (an event object).  Of an
\* event object: event (Nulo: none), pedido_id (0: none), ctx ("ausente",
\* "no_dict": a value that is not an object, "dict"), ctx_country and
\* ctx_user_id (the country and the user_id inside ctx) and country (the
\* top-level country)
NoSobre ==
    [forma |-> Nulo, event |-> Nulo, pedido_id |-> 0, ctx |-> "ausente",
     ctx_country |-> Nulo, ctx_user_id |-> Nulo, country |-> Nulo]

Idle ==
    [pc |-> "idle", op |-> Nulo, pid |-> 0, x_country |-> Nulo,
     sobre |-> NoSobre, schema |-> Nulo, servicio |-> <<>>, ctx |-> NoCtx,
     cuerpo |-> NoPayload, payload |-> NoPayload, leido |-> NoPedido, p |-> NoPedido, prev |-> Nulo,
     pendientes |-> <<>>, calls |-> <<>>, i |-> 0, tokens |-> <<>>,
     lote_id |-> Nulo, ubicacion_id |-> Nulo, commits |-> 0, flushes |-> 0,
     tras |-> Nulo, traza |-> <<>>, consultas |-> 0, resultado |-> SinError]

\* a row an earlier deployment may have left in the table: an order of
\* MaxItems lines in any state the enum allows for its kind (the tests
\* seed such rows)
Semillas ==
    {[Pedido(1, x[1], x[2], IF x[1] = COMPRA THEN RefsCompra ELSE RefsVenta,
             FechaCliente, FALSE)
         EXCEPT !.items = ItemsDe(MaxItems),
                !.totales = calcular_totales(ItemsDe(MaxItems))] :
        x \in {y \in PedidoTipo \X PedidoEstado : y[2] \in EstadosDeTipo(y[1])}}

\* the inventory service has registered no receipt
SinEntradas == [id \in PedidoIds |-> [k \in 1..MaxItems |-> 0]]

InitCon(m) ==
    /\ db \in {[id \in PedidoIds |-> IF id = 1 THEN s ELSE NoPedido] :
                s \in Semillas \cup {NoPedido}}
    /\ eventos = [id \in PedidoIds |-> <<>>]
    /\ req = [r \in Paths |-> Idle]
    /\ modo = m
    /\ entradas = SinEntradas

Init == InitCon("sec")

\* a request is accepted on path r
Libre(r) ==
    /\ req[r].pc = "idle"
    /\ modo = "sec" => \A q \in Paths : req[q].pc = "idle"

\* the request on path r ends by raising e
Raise(r, e) == [req[r] EXCEPT !.pc = "done", !.resultado = e]

ValueError(msg) == [exc |-> "ValueError", msg |-> msg]

(***************************************************************************)
(* PedidosService: the guards of the three transition operations, as the   *)
(* message of the ValueError they raise (Nulo: the guard passes).  The     *)
(* first test of each is _ensure.                                          *)
(***************************************************************************)
\* variants of the guards with one test left out
ErrorMarcarRecibido_sin_tipo(p) ==
    IF ~p.existe THEN "Pedido no encontrado"
    ELSE IF p.estado \notin {APROBADO, EN_TRANSITO} THEN "Transicion no valida"
    ELSE Nulo

ErrorMarcarRecibido_sin_estado(p) ==
    IF ~p.existe THEN "Pedido no encontrado"
    ELSE IF p.tipo # COMPRA THEN "Solo aplica para pedidos de COMPRA"
    ELSE Nulo

ErrorMarcarRecibido(p) ==
    IF ~p.existe THEN "Pedido no encontrado"
    ELSE IF p.tipo # COMPRA THEN "Solo aplica para pedidos de COMPRA"
    ELSE IF p.estado \notin {APROBADO, EN_TRANSITO} THEN "Transicion no valida"
    ELSE Nulo

ErrorMarcarDespachado_sin_tipo(p) ==
    IF ~p.existe THEN "Pedido no encontrado"
    ELSE IF p.estado # APROBADO THEN "Transicion no valida"
    ELSE Nulo

ErrorMarcarDespachado_sin_estado(p) ==
    IF ~p.existe THEN "Pedido no encontrado"
    ELSE IF p.tipo # VENTA THEN "Solo aplica para pedidos de VENTA"
    ELSE Nulo

ErrorMarcarDespachado(p) ==
    IF ~p.existe THEN "Pedido no encontrado"
    ELSE IF p.tipo # VENTA THEN "Solo aplica para pedidos de VENTA"
    ELSE IF p.estado # APROBADO THEN "Transicion no valida"
    ELSE Nulo

ErrorCancelar_sin_cancelado(p) ==
    IF ~p.existe THEN "Pedido no encontrado"
    ELSE IF p.estado \in {RECIBIDO, DESPACHADO}
         THEN "No se puede cancelar en este estado"
    ELSE Nulo

ErrorCancelar(p) ==
    IF ~p.existe THEN "Pedido no encontrado"
    ELSE IF p.estado \in {RECIBIDO, DESPACHADO, CANCELADO}
         THEN "No se puede cancelar en este estado"
    ELSE Nulo

ErrorDe(op, p) ==
    CASE op = "marcar_recibido" -> ErrorMarcarRecibido(p)
      [] op = "marcar_despachado" -> ErrorMarcarDespachado(p)
      [] op = "cancelar" -> ErrorCancelar(p)

\* the table pedido a session of the given schema reads: every order the
\* model stores belongs to the default schema
Tabla(schema) ==
    IF schema = settings.DEFAULT_SCHEMA THEN db
    ELSE [id \in PedidoIds |-> NoPedido]

\* def svc(db): return PedidosService(db): the service a handler builds on
\* its session
svc(schema) == [Idle EXCEPT !.schema = schema]

\* one call of a service method by a handler
Invocacion(op, pedido_id, x_country) ==
    [op |-> op, pedido_id |-> pedido_id, x_country |-> x_country]

\* variant of Ensure that records the attempt before it tests the guards
Ensure_log_antes(r, s, op, pedido_id, x_country, siguiente) ==
    LET p == Tabla(s.schema)[pedido_id]
        err == ErrorDe(op, p)
        q == [s EXCEPT !.op = op, !.pid = pedido_id, !.x_country = x_country,
                       !.leido = p,
                       !.servicio = Append(@, Invocacion(op, pedido_id, x_country))]
    IN  /\ req' = [req EXCEPT ![r] =
                     IF err # Nulo
                     THEN [q EXCEPT !.pc = "done", !.resultado = ValueError(err)]
                     ELSE [q EXCEPT !.p = p, !.prev = p.estado, !.i = 1,
                                    !.pc = siguiente]]
        /\ eventos' = [eventos EXCEPT ![pedido_id] =
                         IF p.existe
                         THEN Append(@, _log(q.ctx, p.estado, op, Nulo, "intento"))
                         ELSE @]
        /\ UNCHANGED <<db, modo, entradas>>

\* the handler of path r calls op(pedido_id, x_country) on the service s it
\* has built on its session, and the call runs up to its guards:
\* p = self._ensure(pedido_id), the SELECT of the row into the session,
\* then either the ValueError or prev = p.estado
Ensure(r, s, op, pedido_id, x_country, siguiente) ==
    LET p == Tabla(s.schema)[pedido_id]
        err == ErrorDe(op, p)
        q == [s EXCEPT !.op = op, !.pid = pedido_id, !.x_country = x_country,
                       !.leido = p,
                       !.servicio = Append(@, Invocacion(op, pedido_id, x_country))]
    IN  /\ req' = [req EXCEPT ![r] =
                     IF err # Nulo
                     THEN [q EXCEPT !.pc = "done", !.resultado = ValueError(err)]
                     ELSE [q EXCEPT !.p = p, !.prev = p.estado, !.i = 1,
                                    !.pc = siguiente]]
        /\ UNCHANGED <<db, eventos, modo, entradas>>

\* variant that clears the totals of the order when its state changes
CommitTransicion_sin_totales(r, nuevo, mensaje, evento) ==
    LET q == req[r]
        ev == _log(q.ctx, nuevo, evento, q.prev, mensaje)
    IN  /\ q.pc = "commit"
        /\ db' = [db EXCEPT ![q.pid].estado = nuevo,
                            ![q.pid].totales = SinTotales]
        /\ eventos' = [eventos EXCEPT ![q.pid] = Append(@, ev)]
        /\ req' = [req EXCEPT ![r] =
                     [q EXCEPT !.pc = "refresh", !.tras = "done",
                               !.p.estado = nuevo, !.commits = @ + 1]]
        /\ UNCHANGED <<modo, entradas>>

\* variant that keeps only the latest event of the order
CommitTransicion_reescribe(r, nuevo, mensaje, evento) ==
    LET q == req[r]
        ev == _log(q.ctx, nuevo, evento, q.prev, mensaje)
    IN  /\ q.pc = "commit"
        /\ db' = [db EXCEPT ![q.pid].estado = nuevo]
        /\ eventos' = [eventos EXCEPT ![q.pid] = <<ev>>]
        /\ req' = [req EXCEPT ![r] =
                     [q EXCEPT !.pc = "refresh", !.tras = "done",
                               !.p.estado = nuevo, !.commits = @ + 1]]
        /\ UNCHANGED <<modo, entradas>>

\* variant that logs the event before it assigns the new state
CommitTransicion_log_antes(r, nuevo, mensaje, evento) ==
    LET q == req[r]
        ev == _log(q.ctx, q.prev, evento, q.prev, mensaje)
    IN  /\ q.pc = "commit"
        /\ db' = [db EXCEPT ![q.pid].estado = nuevo]
        /\ eventos' = [eventos EXCEPT ![q.pid] = Append(@, ev)]
        /\ req' = [req EXCEPT ![r] =
                     [q EXCEPT !.pc = "refresh", !.tras = "done",
                               !.p.estado = nuevo, !.commits = @ + 1]]
        /\ UNCHANGED <<modo, entradas>>

\* variant that drops the reservation and the purchase order of the order
\* when its state changes
CommitTransicion_libera(r, nuevo, mensaje, evento) ==
    LET q == req[r]
        ev == _log(q.ctx, nuevo, evento, q.prev, mensaje)
    IN  /\ q.pc = "commit"
        /\ db' = [db EXCEPT ![q.pid].estado = nuevo,
                            ![q.pid].reserva_token = <<>>,
                            ![q.pid].oc_id = Nulo]
        /\ eventos' = [eventos EXCEPT ![q.pid] = Append(@, ev)]
        /\ req' = [req EXCEPT ![r] =
                     [q EXCEPT !.pc = "refresh", !.tras = "done",
                               !.p.estado = nuevo, !.commits = @ + 1]]
        /\ UNCHANGED <<modo, entradas>>

\* variant with a version check: the commit fails when the state of the
\* row is no longer the one the guard has read
CommitTransicion_con_version(r, nuevo, mensaje, evento) ==
    LET q == req[r]
        ev == _log(q.ctx, nuevo, evento, q.prev, mensaje)
    IN  /\ q.pc = "commit"
        /\ IF db[q.pid].estado # q.prev
           THEN /\ req' = [req EXCEPT ![r] =
                             Raise(r, [exc |-> "StaleDataError", msg |-> "estado"])]
                /\ UNCHANGED <<db, eventos, modo, entradas>>
           ELSE /\ db' = [db EXCEPT ![q.pid].estado = nuevo]
                /\ eventos' = [eventos EXCEPT ![q.pid] = Append(@, ev)]
                /\ req' = [req EXCEPT ![r] =
                             [q EXCEPT !.pc = "refresh", !.tras = "done",
                                       !.p.estado = nuevo, !.commits = @ + 1]]
                /\ UNCHANGED <<modo, entradas>>

\* p.estado = nuevo; self._log(...); self.db.commit(): the UPDATE of the
\* column estado and the INSERT of the event
CommitTransicion(r, nuevo, mensaje, evento) ==
    LET q == req[r]
        ev == _log(q.ctx, nuevo, evento, q.prev, mensaje)
    IN  /\ q.pc = "commit"
        /\ db' = [db EXCEPT ![q.pid].estado = nuevo]
        /\ eventos' = [eventos EXCEPT ![q.pid] = Append(@, ev)]
        /\ req' = [req EXCEPT ![r] =
                     [q EXCEPT !.pc = "refresh", !.tras = "done",
                               !.p.estado = nuevo, !.commits = @ + 1]]
        /\ UNCHANGED <<modo, entradas>>

\* self.db.refresh(p) after each commit: the row is read back
Refresh(r) ==
    LET q == req[r]
    IN  /\ q.pc = "refresh"
        /\ req' = [req EXCEPT ![r] =
                     [q EXCEPT !.pc = q.tras, !.tras = Nulo, !.p = db[q.pid]]]
        /\ UNCHANGED <<db, eventos, modo, entradas>>

(***************************************************************************)
(* PedidosService.marcar_recibido, lines 186-229                           *)
(***************************************************************************)
\* where the loop over p.items stands with index i: at the lot of line i,
\* or past the last line
\* variant that leaves the loop one line early
PasoRecibido_corto(items, i) == IF i < Len(items) THEN "lote" ELSE "commit"

PasoRecibido(items, i) == IF i <= Len(items) THEN "lote" ELSE "commit"

\* variant that runs the loop over the lines with or without a country
marcar_recibido_siempre_llama(r, s, pedido_id, x_country) ==
    Ensure(r, s, "marcar_recibido", pedido_id, x_country,
           PasoRecibido(Tabla(s.schema)[pedido_id].items, 1))

\* lines 187-197: the guards, then `if x_country:` the loop over the lines
marcar_recibido(r, s, pedido_id, x_country) ==
    Ensure(r, s, "marcar_recibido", pedido_id, x_country,
           IF x_country # Nulo
           THEN PasoRecibido(Tabla(s.schema)[pedido_id].items, 1)
           ELSE "commit")

\* what a post does at the service it reaches: an answered POST
\* /v1/inventario/entrada has registered one more receipt of its line
Registrar(llamada, ok) ==
    entradas' = IF ok /\ llamada.path = P_ENTRADA
                THEN [entradas EXCEPT ![llamada.pedido][llamada.idx] = @ + 1]
                ELSE entradas

\* variant in which a failed post is swallowed and the request goes on
Post_traga_fallas(r, pc, llamada, falla, siguiente) ==
    LET q == req[r]
    IN  /\ q.pc = pc
        /\ req' = [req EXCEPT ![r] =
                     [siguiente EXCEPT !.calls =
                         Append(q.calls, [llamada EXCEPT !.ok = falla = Nulo])]]
        /\ Registrar(llamada, falla = Nulo)
        /\ UNCHANGED <<db, eventos, modo>>

\* one client.post of the loop: it raises, or it returns and the request
\* goes on as siguiente says
Post(r, pc, llamada, falla, siguiente) ==
    LET q == req[r]
    IN  /\ q.pc = pc
        /\ req' = [req EXCEPT ![r] =
                     IF falla # Nulo
                     THEN [Raise(r, ExcepcionGateway(falla)) EXCEPT
                               !.calls = Append(q.calls, [llamada EXCEPT !.ok = FALSE])]
                     ELSE [siguiente EXCEPT !.calls = Append(q.calls, llamada)]]
        /\ Registrar(llamada, falla = Nulo)
        /\ UNCHANGED <<db, eventos, modo>>

\* 3.1 crear lote: codigo LOTE-{p.codigo}-{idx:02d}, producto_id of the line
MarcarRecibido_Lote(r) ==
    LET q == req[r] IN
    /\ q.op = "marcar_recibido"
    /\ q.pc = "lote"
    /\ \E falla \in GatewayFallas \cup {Nulo}, id \in RespLote :
          Post(r, "lote",
               Llamada(P_LOTE, q.p.id, q.p.items[q.i].producto_id, 0, q.i,
                       Nulo, Nulo, TRUE),
               falla,
               [q EXCEPT !.pc = "ubicacion", !.lote_id = id])

\* 3.2 the line has no ubicacion_id (PedidoItem has no such column): a
\* default location is created in the destination warehouse
MarcarRecibido_Ubicacion(r) ==
    LET q == req[r] IN
    /\ q.op = "marcar_recibido"
    /\ q.pc = "ubicacion"
    /\ \E falla \in GatewayFallas \cup {Nulo}, id \in RespUbicacion :
          Post(r, "ubicacion",
               Llamada(P_UBICACION, q.p.id, 0, 0, q.i, Nulo, Nulo, TRUE),
               falla,
               [q EXCEPT !.pc = "entrada", !.ubicacion_id = id])

\* 3.3 registrar entrada of int(it.cantidad), estado DISPONIBLE
MarcarRecibido_Entrada(r) ==
    LET q == req[r] IN
    /\ q.op = "marcar_recibido"
    /\ q.pc = "entrada"
    /\ entradas[q.p.id][q.i] < MaxEntradas
    /\ \E falla \in GatewayFallas \cup {Nulo} :
          Post(r, "entrada",
               Llamada(P_ENTRADA, q.p.id, 0, q.p.items[q.i].cantidad, q.i,
                       q.lote_id, q.ubicacion_id, TRUE),
               falla,
               [q EXCEPT !.pc = PasoRecibido(q.p.items, q.i + 1),
                         !.i = q.i + 1, !.lote_id = Nulo, !.ubicacion_id = Nulo])

MarcarRecibido_Commit(r) ==
    /\ req[r].op = "marcar_recibido"
    /\ CommitTransicion(r, RECIBIDO, "Recepcion confirmada", "pedido_recibido")

(***************************************************************************)
(* PedidosService.marcar_despachado, lines 231-242                         *)
(***************************************************************************)
\* lines 232-237; x_country is accepted and not used
marcar_despachado(r, s, pedido_id, x_country) ==
    Ensure(r, s, "marcar_despachado", pedido_id, x_country, "commit")

MarcarDespachado_Commit(r) ==
    /\ req[r].op = "marcar_despachado"
    /\ CommitTransicion(r, DESPACHADO, "Despacho confirmado", "pedido_despachado")

(***************************************************************************)
(* PedidosService.cancelar, lines 245-253                                  *)
(***************************************************************************)
\* lines 246-249
cancelar(r, s, pedido_id) ==
    Ensure(r, s, "cancelar", pedido_id, Nulo, "commit")

Cancelar_Commit(r) ==
    /\ req[r].op = "cancelar"
    /\ CommitTransicion(r, CANCELADO, "Cancelado", "pedido_cancelado")

(***************************************************************************)
(* PedidosService.crear, lines 79-184                                      *)
(***************************************************************************)
\* __init__: the attributes a PedidosService has
ServiceAttrs == {"db"}

\* the lead time, in days, ms-compras quotes for a product of a supplier
LeadTimeCotizado(proveedor_id, producto_id) ==
    IF producto_id = 1 THEN 5 ELSE IF producto_id = 2 THEN 3 ELSE 8

\* _lead_time_dias: the set of the lead time found (empty: None).  The
\* method reads self.ms; when the service has no such attribute the
\* AttributeError is caught by the except of the method, which returns None
_lead_time_dias(proveedor_id, producto_id) ==
    IF "ms" \in ServiceAttrs
    THEN {LeadTimeCotizado(proveedor_id, producto_id)}
    ELSE {}

Max(S) == CHOOSE x \in S : \A y \in S : y <= x

\* a computed value, or the AttributeError of reading a setting that
\* class Settings does not define
\* consultas counts the calls of _lead_time_dias made on the way
Valor(fecha) == [ok |-> TRUE, fecha |-> fecha, consultas |-> 0]
AttributeError == [ok |-> FALSE, fecha |-> SinFecha, consultas |-> 0]

Setting(nombre) ==
    IF nombre \in DOMAIN settings THEN [ok |-> TRUE, v |-> settings[nombre]]
    ELSE [ok |-> FALSE, v |-> Nulo]

_calcular_fecha_compromiso_compra(proveedor_id, items) ==
    LET lead_times ==
            UNION {_lead_time_dias(proveedor_id, items[k].producto_id) :
                      k \in DOMAIN items}
        fc == IF lead_times # {} THEN Valor(Fecha("hoy", Max(lead_times)))
              ELSE IF Setting("DEFAULT_COMPRA_LEAD_DAYS").ok
                   THEN Valor(Fecha("hoy", Setting("DEFAULT_COMPRA_LEAD_DAYS").v))
              ELSE AttributeError
    IN  [fc EXCEPT !.consultas = Len(items)]

\* variant that computes the date of a COMPRA order from the lead times
\* whether or not the payload brings one
FechaCompromiso_siempre_calcula(payload) ==
    IF payload.tipo = COMPRA
    THEN _calcular_fecha_compromiso_compra(payload.refs.proveedor_id,
                                           payload.items)
    ELSE IF payload.fecha # SinFecha THEN Valor(payload.fecha)
         ELSE IF Setting("DEFAULT_VENTA_LEAD_DAYS").ok
              THEN Valor(Fecha("hoy", Setting("DEFAULT_VENTA_LEAD_DAYS").v))
         ELSE AttributeError

\* lines 83-95
FechaCompromiso(payload) ==
    IF payload.tipo = COMPRA
    THEN IF payload.fecha # SinFecha THEN Valor(payload.fecha)
         ELSE _calcular_fecha_compromiso_compra(payload.refs.proveedor_id,
                                                payload.items)
    ELSE IF payload.fecha # SinFecha THEN Valor(payload.fecha)
         ELSE IF Setting("DEFAULT_VENTA_LEAD_DAYS").ok
              THEN Valor(Fecha("hoy", Setting("DEFAULT_VENTA_LEAD_DAYS").v))
         ELSE AttributeError

\* variant that joins the tokens with no separator
RECURSIVE Join_sin_coma(_)
Join_sin_coma(tokens) ==
    IF tokens = <<>> THEN <<>>
    ELSE tokens[1] \o Join_sin_coma(Tail(tokens))

\* ",".join(tokens), a token being a sequence of characters
RECURSIVE Join(_)
Join(tokens) ==
    IF tokens = <<>> THEN <<>>
    ELSE IF Len(tokens) = 1 THEN tokens[1]
    ELSE tokens[1] \o <<",">> \o Join(Tail(tokens))

\* (resp or {}).get("token") or "OK"
TokenDe(resp) == IF resp = <<>> THEN <<"O", "K">> ELSE resp

\* where the loop over p.items of the VENTA branch stands with index i
\* variant that leaves the loop one line early
PasoFefo_corto(items, i) == IF i < Len(items) THEN "fefo" ELSE "commit3"

PasoFefo(items, i) == IF i <= Len(items) THEN "fefo" ELSE "commit3"

\* the id the next inserted row gets (uuid4): the first one not in use.
\* Only crear inserts and only one crear runs at a time, so no request in
\* flight holds an id that is not in db yet.
IdLibre(k) ==
    /\ ~db[k].existe
    /\ \A j \in 1..(k - 1) : db[j].existe

\* variant of crear that computes the totals before it attaches the lines
TrazaCrear_totales_antes(items) ==
    <<"add", "flush", "_log", "calcular_totales">>
        \o [k \in 1..Len(items) |-> "item"] \o <<"_log">>

\* the statements of lines 111-131 in the order crear executes them: "item"
\* is one pass of the loop that builds and attaches a line
TrazaCrear(items) ==
    <<"add", "flush", "_log">>
        \o [k \in 1..Len(items) |-> "item"] \o <<"calcular_totales", "_log">>

\* the lines attached to the order when the trace reaches calcular_totales
Adjuntos(traza) ==
    LET t == CHOOSE k \in DOMAIN traza : traza[k] = "calcular_totales"
    IN  Cardinality({k \in 1..t : traza[k] = "item"})

\* lines 80-131: the validation of the payload, the commitment date, then
\* db.add(p) and db.flush() (where the constraints of the row are
\* checked), the two "pedido_creado" events, the lines and the totals
crear(r) ==
    LET q == req[r]
        payload == q.payload
        fc == FechaCompromiso(payload)
        id == CHOOSE k \in PedidoIds : IdLibre(k)
        nuevo == Pedido(id, payload.tipo, BORRADOR, payload.refs, fc.fecha, TRUE)
        traza == TrazaCrear(payload.items)
        p == [nuevo EXCEPT
                 !.items = payload.items,
                 !.totales =
                     calcular_totales(SubSeq(payload.items, 1, Adjuntos(traza)))]
    IN  /\ q.pc = "crear"
        /\ req' = [req EXCEPT ![r] =
                     IF payload.tipo = COMPRA /\ payload.refs.proveedor_id = Nulo
                     THEN [q EXCEPT !.pc = "done", !.resultado =
                              ValueError("proveedor_id es obligatorio para pedidos de COMPRA")]
                     ELSE IF ~fc.ok
                     THEN [q EXCEPT !.pc = "done", !.consultas = fc.consultas,
                                    !.resultado =
                                        [exc |-> "AttributeError", msg |-> "settings"]]
                     ELSE IF ~ck_pedido_refs_por_tipo(nuevo)
                     THEN [q EXCEPT !.pc = "done", !.flushes = @ + 1,
                                    !.consultas = fc.consultas,
                                    !.resultado =
                                        [exc |-> "IntegrityError",
                                         msg |-> "ck_pedido_refs_por_tipo"]]
                     ELSE [q EXCEPT !.pc = "commit1", !.pid = id, !.p = p,
                                    !.traza = traza,
                                    !.flushes = @ + 1,
                                    !.consultas = fc.consultas,
                                    !.pendientes =
                                        <<_log(q.ctx, BORRADOR, "pedido_creado", Nulo,
                                                       "Fecha Compromiso Calculada"),
                                          _log(q.ctx, BORRADOR, "pedido_creado", Nulo,
                                                       "Creado")>>]]
        /\ UNCHANGED <<db, eventos, modo, entradas>>

\* line 132: the INSERT of the order in BORRADOR, of its lines and of the
\* two events
Crear_Commit1(r) ==
    LET q == req[r]
    IN  /\ q.pc = "commit1"
        /\ db' = [db EXCEPT ![q.pid] = q.p]
        /\ eventos' = [eventos EXCEPT ![q.pid] = @ \o q.pendientes]
        /\ req' = [req EXCEPT ![r] =
                     [q EXCEPT !.pc = "refresh", !.tras = "commit2",
                               !.pendientes = <<>>, !.commits = @ + 1,
                               !.traza = Append(@, "commit")]]
        /\ UNCHANGED <<modo, entradas>>

\* variant in which a COMPRA order is not sent to ms-compras
PasoOrquestar_sin_oc(p) ==
    IF p.tipo = VENTA THEN PasoFefo(p.items, 1)
    ELSE "commit3"

\* variant that asks ms-compras for a purchase order whatever the kind
PasoOrquestar_siempre_oc(p) == "oc"

\* the branch the orchestration takes after the auto-approval, lines 140-167
PasoOrquestar(p) ==
    IF p.tipo = COMPRA THEN "oc"
    ELSE IF p.tipo = VENTA THEN PasoFefo(p.items, 1)
    ELSE "commit3"

\* variant that sends the new order to approval instead of approving it
EstadoAutoAprobado_pendiente == PENDIENTE_APROBACION

\* variant: the order is left in the state it was created in
EstadoAutoAprobado_borrador == BORRADOR

\* line 136: the state crear moves the new order to
EstadoAutoAprobado == APROBADO

\* variant in which the auto-approval is left to the last commit of crear
Crear_Commit2_sin_commit(r) ==
    LET q == req[r]
        ev == _log(q.ctx, EstadoAutoAprobado, "pedido_aprobado", q.p.estado,
                           "Auto-aprobado al crear")
    IN  /\ q.pc = "commit2"
        /\ req' = [req EXCEPT ![r] =
                     [q EXCEPT !.pc = PasoOrquestar(q.p), !.prev = q.p.estado,
                               !.p.estado = EstadoAutoAprobado, !.i = 1,
                               !.pendientes = Append(@, ev)]]
        /\ UNCHANGED <<db, eventos, modo, entradas>>

\* lines 135-138: prev = p.estado; p.estado = APROBADO; the event; commit
Crear_Commit2(r) ==
    LET q == req[r]
        ev == _log(q.ctx, EstadoAutoAprobado, "pedido_aprobado", q.p.estado,
                           "Auto-aprobado al crear")
    IN  /\ q.pc = "commit2"
        /\ db' = [db EXCEPT ![q.pid].estado = EstadoAutoAprobado]
        /\ eventos' = [eventos EXCEPT ![q.pid] = Append(@, ev)]
        /\ req' = [req EXCEPT ![r] =
                     [q EXCEPT !.pc = "refresh", !.tras = PasoOrquestar(q.p),
                               !.prev = q.p.estado,
                               !.p.estado = EstadoAutoAprobado,
                               !.i = 1, !.commits = @ + 1,
                               !.traza = Append(@, "commit")]]
        /\ UNCHANGED <<modo, entradas>>

\* lines 142-165: POST /v1/ordenes-compra; if the answer has an id it is
\* linked and the "oc_creada" event is added
Crear_OC(r) ==
    LET q == req[r] IN
    /\ q.op = "crear"
    /\ q.pc = "oc"
    /\ \E falla \in GatewayFallas \cup {Nulo}, id \in RespOC :
          Post(r, "oc",
               [Llamada(P_OC, q.p.id, 0, 0, 0, Nulo, Nulo, TRUE)
                   EXCEPT !.resp = IF id = Nulo THEN <<>> ELSE <<id>>],
               falla,
               IF id # Nulo
               THEN [q EXCEPT !.pc = "commit3", !.p.oc_id = id,
                              !.pendientes =
                                  Append(@, _log(q.ctx, q.p.estado, "oc_creada", Nulo,
                                                         "OC creada y vinculada"))]
               ELSE [q EXCEPT !.pc = "commit3"])

\* variant that stores the tokens received so far after every FEFO call
Crear_Fefo_guarda_token(r) ==
    LET q == req[r] IN
    /\ q.op = "crear"
    /\ q.pc = "fefo"
    /\ \E falla \in GatewayFallas \cup {Nulo}, resp \in RespFefo :
          LET llamada == [Llamada(P_FEFO, Nulo, q.p.items[q.i].producto_id,
                                  q.p.items[q.i].cantidad, q.i, Nulo, Nulo,
                                  falla = Nulo)
                             EXCEPT !.resp = resp]
              tokens == Append(q.tokens, TokenDe(resp))
          IN  /\ req' = [req EXCEPT ![r] =
                           IF falla # Nulo
                           THEN [Raise(r, ExcepcionGateway(falla)) EXCEPT
                                     !.calls = Append(q.calls, llamada)]
                           ELSE [q EXCEPT !.pc = PasoFefo(q.p.items, q.i + 1),
                                          !.i = q.i + 1, !.tokens = tokens,
                                          !.calls = Append(q.calls, llamada)]]
              /\ db' = IF falla = Nulo
                       THEN [db EXCEPT ![q.pid].reserva_token = Join(tokens)]
                       ELSE db
              /\ UNCHANGED <<eventos, modo, entradas>>

\* lines 170-175: one POST /v1/inventario/salida/fefo for the line i
Crear_Fefo(r) ==
    LET q == req[r] IN
    /\ q.op = "crear"
    /\ q.pc = "fefo"
    /\ \E falla \in GatewayFallas \cup {Nulo}, resp \in RespFefo :
          Post(r, "fefo",
               [Llamada(P_FEFO, Nulo, q.p.items[q.i].producto_id,
                        q.p.items[q.i].cantidad, q.i, Nulo, Nulo, TRUE)
                   EXCEPT !.resp = resp],
               falla,
               [q EXCEPT !.pc = PasoFefo(q.p.items, q.i + 1), !.i = q.i + 1,
                         !.tokens = Append(@, TokenDe(resp))])

\* variant that records no "salida_fefo" event
Crear_Commit3_sin_evento(r) ==
    LET q == req[r]
        venta == q.p.tipo = VENTA
    IN  /\ q.pc = "commit3"
        /\ db' = [db EXCEPT
                    ![q.pid].reserva_token = IF venta THEN Join(q.tokens) ELSE @,
                    ![q.pid].oc_id = IF q.p.oc_id # Nulo THEN q.p.oc_id ELSE @]
        /\ eventos' = [eventos EXCEPT ![q.pid] = @ \o q.pendientes]
        /\ req' = [req EXCEPT ![r] =
                     [q EXCEPT !.pc = "refresh", !.tras = "done",
                               !.pendientes = <<>>, !.commits = @ + 1,
                               !.traza = Append(@, "commit")]]
        /\ UNCHANGED <<modo, entradas>>

\* lines 176-183: after the loop of a VENTA the joined tokens and the
\* "salida_fefo" event; then the commit: the UPDATE of the columns the
\* orchestration has set and the INSERT of its event
Crear_Commit3(r) ==
    LET q == req[r]
        venta == q.p.tipo = VENTA
        pend == IF venta
                THEN Append(q.pendientes,
                            _log(q.ctx, q.p.estado, "salida_fefo", Nulo,
                                         "Salida FEFO completada"))
                ELSE q.pendientes
    IN  /\ q.pc = "commit3"
        /\ db' = [db EXCEPT
                    ![q.pid].reserva_token = IF venta THEN Join(q.tokens) ELSE @,
                    ![q.pid].oc_id = IF q.p.oc_id # Nulo THEN q.p.oc_id ELSE @]
        /\ eventos' = [eventos EXCEPT ![q.pid] = @ \o pend]
        /\ req' = [req EXCEPT ![r] =
                     [q EXCEPT !.pc = "refresh", !.tras = "done",
                               !.pendientes = <<>>, !.commits = @ + 1,
                               !.traza = Append(@, "commit")]]
        /\ UNCHANGED <<modo, entradas>>

(***************************************************************************)
(* src/src/routes/pedido.py: the REST routes.  Each makes one service       *)
(* call on path "api", on the session get_session gives it.  The           *)
(* transition routes pass pedido_id only: no x_country and no ctx.  crear  *)
(* gets the X-Country header.                                              *)
(***************************************************************************)
\* Depends(get_session): the schema of the session of a REST request
get_session == settings.DEFAULT_SCHEMA

\* Depends(audit_context): the AuditContext object of a REST request
audit_context == [clase |-> "AuditContext", country |-> "co", user_id |-> "u7"]

\* crear_pedido: a body that fails the validation of schemas.PedidoCreate
\* is answered 422 before the handler runs; otherwise the service gets
\* body.model_dump() and the X-Country header
crear_pedido(body) ==
    LET q == [Idle EXCEPT !.op = "crear", !.cuerpo = body]
        x_country == "co"
    IN  /\ Libre("api")
        /\ \E k \in PedidoIds : IdLibre(k)
        /\ req' = [req EXCEPT !["api"] =
                     IF Valida(body)
                     THEN [q EXCEPT !.pc = "crear", !.payload = model_dump(body),
                                    !.x_country = x_country,
                                    !.schema = get_session,
                                    !.ctx = audit_context,
                                    !.servicio = <<Invocacion("crear", 0, x_country)>>]
                     ELSE [q EXCEPT !.pc = "done",
                                    !.resultado =
                                        [exc |-> "RequestValidationError",
                                         msg |-> "422"]]]
        /\ UNCHANGED <<db, eventos, modo, entradas>>

ruta_marcar_recibido(pedido_id) ==
    /\ Libre("api")
    /\ marcar_recibido("api", svc(get_session), pedido_id, Nulo)

ruta_marcar_despachado(pedido_id) ==
    /\ Libre("api")
    /\ marcar_despachado("api", svc(get_session), pedido_id, Nulo)

cancelar_pedido(pedido_id) ==
    /\ Libre("api")
    /\ cancelar("api", svc(get_session), pedido_id)

(***************************************************************************)
(* src/src/routes/pubsub.py: POST /pubsub                                  *)
(***************************************************************************)
EventTypes == {"pedido_recibido", "pedido_despachado", "pedido_cancelado", "otro"}

\* the envelopes that do not carry an event object
FormasSinEvento ==
    {"no_json", "no_objeto", "sin_message", "message_no_objeto", "sin_data",
     "data_invalida", "evento_no_objeto"}

\* the ctx and the countries an event object brings: nothing; a top-level
\* country; a ctx with country and a top-level country; a ctx without
\* country and a top-level country; a ctx that is not an object
Contextos ==
    {[ctx |-> "ausente", ctx_country |-> Nulo, ctx_user_id |-> Nulo, country |-> Nulo],
     [ctx |-> "ausente", ctx_country |-> Nulo, ctx_user_id |-> Nulo, country |-> "mx"],
     [ctx |-> "dict", ctx_country |-> "co", ctx_user_id |-> "u123", country |-> "mx"],
     [ctx |-> "dict", ctx_country |-> Nulo, ctx_user_id |-> Nulo, country |-> "mx"],
     [ctx |-> "no_dict", ctx_country |-> Nulo, ctx_user_id |-> Nulo, country |-> Nulo]}

Sobres ==
    {[NoSobre EXCEPT !.forma = f] : f \in FormasSinEvento}
    \cup {[forma |-> "ok", event |-> e, pedido_id |-> id, ctx |-> c.ctx,
            ctx_country |-> c.ctx_country, ctx_user_id |-> c.ctx_user_id,
            country |-> c.country] :
              e \in EventTypes \cup {Nulo}, id \in PedidoIds \cup {0},
              c \in Contextos}

\* variant that looks at the top-level country first
Country_primero_evento(sobre) ==
    IF sobre.country # Nulo THEN sobre.country
    ELSE IF sobre.ctx_country # Nulo THEN sobre.ctx_country
    ELSE settings.DEFAULT_SCHEMA

\* lines 78-82: ctx_dict.get("country") or event.get("country") or
\* settings.DEFAULT_SCHEMA
Country(sobre) ==
    IF sobre.ctx_country # Nulo THEN sobre.ctx_country
    ELSE IF sobre.country # Nulo THEN sobre.country
    ELSE settings.DEFAULT_SCHEMA

\* the exception a statement of the handler raises on a value that is
\* not an object (.get of a list, a string, a number or None): lines 48,
\* 56, 71 and 79, none of them inside a try
NoEsObjeto(linea) == [exc |-> "AttributeError", msg |-> linea]

\* event["pedido_id"] of an event that has none, inside the try of the
\* dispatch
KeyError == [exc |-> "KeyError", msg |-> "pedido_id"]

\* variant of the dispatch that sends every event it knows to cancelar
Despachar_todo_cancela(s, sobre, country) ==
    IF sobre.event \notin {"pedido_recibido", "pedido_despachado", "pedido_cancelado"}
    THEN /\ req' = [req EXCEPT !["pubsub"] = [s EXCEPT !.pc = "done"]]
         /\ UNCHANGED <<db, eventos, modo, entradas>>
    ELSE IF sobre.pedido_id = 0
    THEN /\ req' = [req EXCEPT !["pubsub"] =
                      [s EXCEPT !.pc = "done", !.resultado = KeyError]]
         /\ UNCHANGED <<db, eventos, modo, entradas>>
    ELSE cancelar("pubsub", s, sobre.pedido_id)

\* lines 92-116: the dispatch on event_type, with the service s built on
\* the session.  The argument event["pedido_id"] is evaluated before the
\* call; an event of any other name calls nothing
Despachar(s, sobre, country) ==
    IF sobre.event \notin {"pedido_recibido", "pedido_despachado", "pedido_cancelado"}
    THEN /\ req' = [req EXCEPT !["pubsub"] = [s EXCEPT !.pc = "done"]]
         /\ UNCHANGED <<db, eventos, modo, entradas>>
    ELSE IF sobre.pedido_id = 0
    THEN /\ req' = [req EXCEPT !["pubsub"] =
                      [s EXCEPT !.pc = "done", !.resultado = KeyError]]
         /\ UNCHANGED <<db, eventos, modo, entradas>>
    ELSE CASE sobre.event = "pedido_recibido" ->
                  marcar_recibido("pubsub", s, sobre.pedido_id, country)
           [] sobre.event = "pedido_despachado" ->
                  marcar_despachado("pubsub", s, sobre.pedido_id, country)
           [] sobre.event = "pedido_cancelado" ->
                  cancelar("pubsub", s, sobre.pedido_id)

\* what the handler does before it opens a session: fin = it ends there,
\* returning (e = SinError) or raising e
Sigue == [fin |-> FALSE, e |-> SinError]
Termina(e) == [fin |-> TRUE, e |-> e]

\* variant of the decoding that does not test whether the event has a name
Decodificar_sin_event(sobre) ==
    CASE sobre.forma = "no_json" -> Termina(SinError)
      [] sobre.forma = "no_objeto" -> Termina(NoEsObjeto("envelope.get"))
      [] sobre.forma = "sin_message" -> Termina(SinError)
      [] sobre.forma = "message_no_objeto" -> Termina(NoEsObjeto("message.get"))
      [] sobre.forma = "sin_data" -> Termina(SinError)
      [] sobre.forma = "data_invalida" -> Termina(SinError)
      [] sobre.forma = "evento_no_objeto" -> Termina(NoEsObjeto("event.get"))
      [] sobre.forma = "ok" /\ sobre.ctx = "no_dict" ->
             Termina(NoEsObjeto("ctx_dict.get"))
      [] OTHER -> Sigue

\* lines 42-82.  The handler returns early when the body is not JSON, has
\* no message, the message no data, the data cannot be decoded or the
\* event has no name; it raises AttributeError where it calls .get on a
\* value that is not an object
Decodificar(sobre) ==
    CASE sobre.forma = "no_json" -> Termina(SinError)
      [] sobre.forma = "no_objeto" -> Termina(NoEsObjeto("envelope.get"))
      [] sobre.forma = "sin_message" -> Termina(SinError)
      [] sobre.forma = "message_no_objeto" -> Termina(NoEsObjeto("message.get"))
      [] sobre.forma = "sin_data" -> Termina(SinError)
      [] sobre.forma = "data_invalida" -> Termina(SinError)
      [] sobre.forma = "evento_no_objeto" -> Termina(NoEsObjeto("event.get"))
      [] sobre.forma = "ok" /\ sobre.event = Nulo -> Termina(SinError)
      [] sobre.forma = "ok" /\ sobre.event # Nulo /\ sobre.ctx = "no_dict" ->
             Termina(NoEsObjeto("ctx_dict.get"))
      [] OTHER -> Sigue

\* lines 42-127: the decoding, then `with session_for_schema(country)` and
\* the dispatch on the service of that session
handle_pubsub_push(sobre) ==
    LET d == Decodificar(sobre)
        country == Country(sobre)
    IN  /\ Libre("pubsub")
        /\ IF d.fin
           THEN /\ req' = [req EXCEPT !["pubsub"] =
                             [Idle EXCEPT !.pc = "done", !.sobre = sobre,
                                          !.resultado = d.e]]
                /\ UNCHANGED <<db, eventos, modo, entradas>>
           ELSE Despachar([svc(country) EXCEPT
                               !.sobre = sobre,
                               !.ctx = CtxDict(sobre.ctx_country, sobre.ctx_user_id)],
                          sobre, country)

\* the status of the answer to the push on path "pubsub" once the handler
\* has ended: 204 when it returns (also after the except clauses of the
\* dispatch, which swallow what the service raised), 500 when an
\* exception leaves the handler, which is one raised before the session
\* is opened
Respuesta ==
    IF req["pubsub"].schema = Nulo /\ req["pubsub"].resultado # SinError
    THEN 500
    ELSE 204

\* the handler returns: the session is closed, what it did not commit is lost
Responder(r) ==
    /\ req[r].pc = "done"
    /\ req' = [req EXCEPT ![r] = Idle]
    /\ UNCHANGED <<db, eventos, modo, entradas>>

(***************************************************************************)
(* The system                                                              *)
(***************************************************************************)
Next ==
    \/ \E body \in Bodies : crear_pedido(body)
    \/ \E id \in PedidoIds : ruta_marcar_recibido(id)
    \/ \E id \in PedidoIds : ruta_marcar_despachado(id)
    \/ \E id \in PedidoIds : cancelar_pedido(id)
    \/ \E sobre \in Sobres : handle_pubsub_push(sobre)
    \/ \E r \in Paths :
          \/ crear(r)
          \/ Crear_Commit1(r)
          \/ Crear_Commit2(r)
          \/ Crear_OC(r)
          \/ Crear_Fefo(r)
          \/ Crear_Commit3(r)
          \/ MarcarRecibido_Lote(r)
          \/ MarcarRecibido_Ubicacion(r)
          \/ MarcarRecibido_Entrada(r)
          \/ MarcarRecibido_Commit(r)
          \/ MarcarDespachado_Commit(r)
          \/ Cancelar_Commit(r)
          \/ Refresh(r)
          \/ Responder(r)

\* requests are served one at a time
Spec == Init /\ [][Next]_vars

\* the two entry paths serve their requests independently
SpecConc == InitCon("conc") /\ [][Next]_vars

(***************************************************************************)
(* calcular_totales on its own: an order is built with any lines of the    *)
(* values below, each optional decimal present or None, and the function   *)
(* is applied to it once                                                   *)
(***************************************************************************)
PreciosTotales == {<<>>, <<50>>, <<100>>}
DescuentosTotales == {<<>>, <<0>>, <<10>>}
ImpuestosTotales == {<<>>, <<15>>}
MaxCantidad == 2

LineasTotales ==
    [producto_id : {1}, cantidad : 1..MaxCantidad,
     precio_unitario : PreciosTotales, descuento_pct : DescuentosTotales,
     impuesto_pct : ImpuestosTotales]

InitTotales ==
    /\ db \in {[id \in PedidoIds |->
                   IF id = 1
                   THEN [Pedido(1, VENTA, BORRADOR, RefsVenta, FechaCliente, TRUE)
                            EXCEPT !.items = its]
                   ELSE NoPedido] :
                its \in UNION {[1..n -> LineasTotales] : n \in 0..MaxItems}}
    /\ eventos = [id \in PedidoIds |-> <<>>]
    /\ req = [r \in Paths |-> Idle]
    /\ modo = "totales"
    /\ entradas = SinEntradas

\* calcular_totales(p): the three aggregates of the order are set
Totalizar ==
    /\ db[1].totales = SinTotales
    /\ db' = [db EXCEPT ![1].totales = calcular_totales(db[1].items)]
    /\ UNCHANGED <<eventos, req, modo, entradas>>

SpecTotales == InitTotales /\ [][Totalizar]_vars

(***************************************************************************)
(* Properties                                                              *)
(***************************************************************************)
Last(seq) == seq[Len(seq)]

\* the call on path r has returned / has raised
Hecho(r) == req[r].pc = "done"
Exito(r) == Hecho(r) /\ req[r].resultado = SinError
Fallo(r) == Hecho(r) /\ req[r].resultado # SinError

\* the validation errors of the transition operations
ErroresDeGuarda ==
    {ValueError("Pedido no encontrado"),
     ValueError("Solo aplica para pedidos de COMPRA"),
     ValueError("Solo aplica para pedidos de VENTA"),
     ValueError("Transicion no valida"),
     ValueError("No se puede cancelar en este estado")}

\* C1: marcar_recibido returns only for an existing COMPRA order read in
\* APROBADO or EN_TRANSITO, and then the order is RECIBIDO; for any other
\* order it raises one of the validation errors.
C1_MarcarRecibido ==
    \A r \in Paths :
        (Hecho(r) /\ req[r].op = "marcar_recibido") =>
            LET q == req[r]
                valido == /\ q.leido.existe
                          /\ q.leido.tipo = COMPRA
                          /\ q.leido.estado \in {APROBADO, EN_TRANSITO}
            IN  /\ Exito(r) => /\ valido
                               /\ q.p.estado = RECIBIDO
                               /\ db[q.pid].estado = RECIBIDO
                /\ ~valido => /\ q.resultado \in ErroresDeGuarda
                              /\ q.resultado.exc = "ValueError"
                /\ valido => q.resultado \notin ErroresDeGuarda

C1_Witness ==
    \E r \in Paths :
        /\ Exito(r)
        /\ req[r].op = "marcar_recibido"
        /\ req[r].leido.estado = EN_TRANSITO
        /\ db[req[r].pid].estado = RECIBIDO

\* C2: marcar_despachado returns only for an existing VENTA order read in
\* APROBADO, and then the order is DESPACHADO; for any other order it raises
\* one of the validation errors.
C2_MarcarDespachado ==
    \A r \in Paths :
        (Hecho(r) /\ req[r].op = "marcar_despachado") =>
            LET q == req[r]
                valido == /\ q.leido.existe
                          /\ q.leido.tipo = VENTA
                          /\ q.leido.estado = APROBADO
            IN  /\ Exito(r) => /\ valido
                               /\ q.p.estado = DESPACHADO
                               /\ db[q.pid].estado = DESPACHADO
                /\ ~valido => /\ q.resultado \in ErroresDeGuarda
                              /\ q.resultado.exc = "ValueError"
                /\ valido => Exito(r)

C2_Witness ==
    \E r \in Paths :
        /\ Exito(r)
        /\ req[r].op = "marcar_despachado"
        /\ req[r].leido.estado = APROBADO
        /\ db[req[r].pid].estado = DESPACHADO

\* C3: cancelar raises its state error for an order read in RECIBIDO,
\* DESPACHADO or CANCELADO; for an existing order of either kind in any
\* other state it returns and the order is CANCELADO.
C3_Cancelar ==
    \A r \in Paths :
        (Hecho(r) /\ req[r].op = "cancelar" /\ req[r].leido.existe) =>
            LET q == req[r]
            IN  IF q.leido.estado \in {RECIBIDO, DESPACHADO, CANCELADO}
                THEN q.resultado = ValueError("No se puede cancelar en este estado")
                ELSE /\ q.leido.estado \in
                          {BORRADOR, PENDIENTE_APROBACION, APROBADO, EN_TRANSITO}
                     /\ Exito(r)
                     /\ q.p.estado = CANCELADO
                     /\ db[q.pid].estado = CANCELADO

C3_Witness ==
    \E r \in Paths :
        /\ Exito(r)
        /\ req[r].op = "cancelar"
        /\ req[r].leido.estado = PENDIENTE_APROBACION
        /\ db[req[r].pid].estado = CANCELADO

C5_Terminales ==
    [][\A id \in PedidoIds :
          (db[id].existe /\ db[id].estado \in {CANCELADO, RECIBIDO, DESPACHADO}) =>
              (db'[id].existe /\ db'[id].estado = db[id].estado)]_vars

\* a transition operation has been called on a cancelled order
C5_Witness ==
    \E r \in Paths :
        /\ Hecho(r)
        /\ req[r].op \in {"marcar_recibido", "marcar_despachado", "cancelar"}
        /\ req[r].leido.existe
        /\ req[r].leido.estado = CANCELADO
        /\ eventos[req[r].pid] # <<>>
        /\ db[req[r].pid].estado = CANCELADO

\* C6: every stored order is in a state its kind allows: a VENTA order is
\* never EN_TRANSITO or RECIBIDO, a COMPRA order never DESPACHADO.
C6_EstadoSegunTipo ==
    \A id \in PedidoIds :
        db[id].existe =>
            /\ db[id].tipo = VENTA => db[id].estado \notin {EN_TRANSITO, RECIBIDO}
            /\ db[id].tipo = COMPRA => db[id].estado # DESPACHADO

C6_Witness ==
    \E id \in PedidoIds :
        /\ db[id].existe
        /\ db[id].tipo = VENTA
        /\ db[id].estado = DESPACHADO
        /\ db[id].creado

\* C7: when the last transition recorded for an order is a dispatch (a
\* marcar_despachado has succeeded on it), the next marcar_despachado on
\* that order (a call on a session of the schema that holds it) raises the
\* invalid-transition error and changes nothing.
C7_DespacharDosVeces ==
    [][\A r \in Paths :
          ( /\ req[r].pc = "idle"
            /\ req'[r].pc # "idle"
            /\ req'[r].op = "marcar_despachado"
            /\ req'[r].schema = settings.DEFAULT_SCHEMA
            /\ eventos[req'[r].pid] # <<>>
            /\ Last(eventos[req'[r].pid]).event = "pedido_despachado" ) =>
              /\ req'[r].pc = "done"
              /\ req'[r].resultado = ValueError("Transicion no valida")
              /\ db' = db
              /\ eventos' = eventos]_vars

C7_Witness ==
    \E r \in Paths :
        /\ Fallo(r)
        /\ req[r].op = "marcar_despachado"
        /\ req[r].resultado = ValueError("Transicion no valida")
        /\ eventos[req[r].pid] # <<>>
        /\ Last(eventos[req[r].pid]).event = "pedido_despachado"
        /\ db[req[r].pid].estado = DESPACHADO

\* C8: a transition operation that raises one of its validation errors has
\* made no gateway call, added no event, flushed and committed nothing, and
\* left every order and every recorded event as they were.
C8_GuardaSinEfecto ==
    [][\A r \in Paths :
          ( /\ req'[r] # req[r]
            /\ req'[r].pc = "done"
            /\ req'[r].op \in {"marcar_recibido", "marcar_despachado", "cancelar"}
            /\ req'[r].resultado \in ErroresDeGuarda ) =>
              /\ db' = db
              /\ eventos' = eventos
              /\ req'[r].calls = <<>>
              /\ req'[r].pendientes = <<>>
              /\ req'[r].commits = 0
              /\ req'[r].flushes = 0]_vars

\* marcar_recibido, called with a country, has refused a VENTA order
C8_Witness ==
    \E r \in Paths :
        /\ Fallo(r)
        /\ req[r].op = "marcar_recibido"
        /\ req[r].x_country # Nulo
        /\ req[r].leido.tipo = VENTA
        /\ req[r].leido.items # <<>>
        /\ req[r].resultado = ValueError("Solo aplica para pedidos de COMPRA")
        /\ req[r].calls = <<>>

\* what the claims read of a gateway call: path, line, product, quantity,
\* and whether it was answered 2xx
Vista(c) == <<c.path, c.idx, c.producto_id, c.cantidad, c.ok>>
Vistas(calls) == [j \in DOMAIN calls |-> Vista(calls[j])]

IsPrefix(a, b) == Len(a) <= Len(b) /\ a = SubSeq(b, 1, Len(a))

\* for each line in line order: one lot-create for its product, one
\* location-create, one receipt of its quantity
LlamadasRecibido(items) ==
    [j \in 1..(3 * Len(items)) |->
        LET k == ((j - 1) \div 3) + 1
            m == (j - 1) % 3
        IN  IF m = 0 THEN <<P_LOTE, k, items[k].producto_id, 0, TRUE>>
            ELSE IF m = 1 THEN <<P_UBICACION, k, 0, 0, TRUE>>
            ELSE <<P_ENTRADA, k, 0, items[k].cantidad, TRUE>>]

\* C9 as stated: every marcar_recibido that returns has issued, for each
\* line in line order, the lot-create, location-create and receipt calls.
C9_Original ==
    \A r \in Paths :
        (Exito(r) /\ req[r].op = "marcar_recibido") =>
            Vistas(req[r].calls) = LlamadasRecibido(req[r].leido.items)

\* C9 amended: a marcar_recibido called with a country tag issues, for each
\* line in line order, one lot-create, one location-create and one receipt
\* of the line's quantity, nothing else, and the order is not RECIBIDO
\* until all of them have been answered.
C9_LlamadasRecibido ==
    \A r \in Paths :
        (req[r].op = "marcar_recibido" /\ req[r].x_country # Nulo) =>
            LET q == req[r]
                esperadas == LlamadasRecibido(q.leido.items)
            IN  /\ q.pc \in {"lote", "ubicacion", "entrada", "commit"} =>
                      /\ IsPrefix(Vistas(q.calls), esperadas)
                      /\ db[q.pid].estado # RECIBIDO
                /\ (q.pc \in {"commit", "refresh"} \/ Exito(r)) =>
                      Vistas(q.calls) = esperadas
                /\ Exito(r) => db[q.pid].estado = RECIBIDO

C9_Witness ==
    \E r \in Paths :
        /\ Exito(r)
        /\ req[r].op = "marcar_recibido"
        /\ req[r].x_country # Nulo
        /\ Len(req[r].leido.items) >= 2
        /\ Len(req[r].calls) = 3 * Len(req[r].leido.items)
        /\ db[req[r].pid].estado = RECIBIDO

\* one FEFO call per line, in line order, with the line's product and
\* quantity
LlamadasFefo(items) ==
    [k \in 1..Len(items) |->
        <<P_FEFO, k, items[k].producto_id, items[k].cantidad, TRUE>>]

\* C10: a crear of a VENTA order that returns has issued exactly one FEFO
\* call per line, in line order, each with the product and the quantity of
\* its line; no crear of a VENTA order ever calls the purchase-order path.
C10_LlamadasFefo ==
    \A r \in Paths :
        (req[r].op = "crear" /\ req[r].payload.tipo = VENTA) =>
            LET q == req[r]
            IN  /\ \A j \in DOMAIN q.calls : q.calls[j].path # P_OC
                /\ Exito(r) => Vistas(q.calls) = LlamadasFefo(q.payload.items)

C10_Witness ==
    \E r \in Paths :
        /\ Exito(r)
        /\ req[r].op = "crear"
        /\ req[r].payload.tipo = VENTA
        /\ Len(req[r].payload.items) >= 2
        /\ Len(req[r].calls) = Len(req[r].payload.items)

\* the answered calls to path in the log calls, in call order
RECURSIVE Respondidas(_, _)
Respondidas(calls, path) ==
    IF calls = <<>> THEN <<>>
    ELSE LET c == calls[1]
         IN  (IF c.path = path /\ c.ok THEN <<c>> ELSE <<>>)
                 \o Respondidas(Tail(calls), path)

\* the first k entries of toks written one after the other with a comma
\* between two neighbours; an entry is the token a call returned, "OK"
\* standing for a body without a token
RECURSIVE Unidos(_, _)
Unidos(cs, k) ==
    LET entrada(c) == IF c.resp = <<>> THEN <<"O", "K">> ELSE c.resp
    IN  IF k = 0 THEN <<>>
        ELSE IF k = 1 THEN entrada(cs[1])
        ELSE Unidos(cs, k - 1) \o <<",">> \o entrada(cs[k])

\* C11: after a successful crear of a VENTA order with n lines there were n
\* answered FEFO calls, one per line in line order, and the reservation
\* token of the order is their n tokens joined by commas in that order.
C11_ReservaToken ==
    \A r \in Paths :
        (Exito(r) /\ req[r].op = "crear" /\ req[r].p.tipo = VENTA) =>
            LET q == req[r]
                cs == Respondidas(q.calls, P_FEFO)
            IN  /\ Len(cs) = Len(q.p.items)
                /\ \A k \in DOMAIN cs : cs[k].idx = k
                /\ db[q.pid].reserva_token = Unidos(cs, Len(cs))
                /\ q.p.reserva_token = Unidos(cs, Len(cs))

C11_Witness ==
    \E r \in Paths :
        /\ Exito(r)
        /\ req[r].op = "crear"
        /\ req[r].p.tipo = VENTA
        /\ Len(req[r].p.items) = 2
        /\ db[req[r].pid].reserva_token = <<"a", ",", "O", "K">>

\* C12: a successful crear of a COMPRA order has made exactly one gateway
\* call, the POST to the purchase-order path for this order, and when the
\* answer carried an id X the order has oc_id = X and is APROBADO.
C12_OrdenCompra ==
    \A r \in Paths :
        (Exito(r) /\ req[r].op = "crear" /\ req[r].p.tipo = COMPRA) =>
            LET q == req[r]
            IN  /\ Len(q.calls) = 1
                /\ q.calls[1].path = P_OC
                /\ q.calls[1].pedido = q.pid
                /\ q.calls[1].ok
                /\ \A X \in RespOC \ {Nulo} :
                       q.calls[1].resp = <<X>> =>
                           /\ db[q.pid].oc_id = X
                           /\ db[q.pid].estado = APROBADO
                           /\ q.p.oc_id = X
                           /\ q.p.estado = APROBADO

C12_Witness ==
    \E r \in Paths :
        /\ Exito(r)
        /\ req[r].op = "crear"
        /\ req[r].p.tipo = COMPRA
        /\ req[r].calls[1].resp = <<"oc1">>
        /\ db[req[r].pid].oc_id = "oc1"
        /\ db[req[r].pid].estado = APROBADO

\* the events crear has committed once the auto-approval is committed
EventosHastaAprobado ==
    <<_log(audit_context, BORRADOR, "pedido_creado", Nulo, "Fecha Compromiso Calculada"),
      _log(audit_context, BORRADOR, "pedido_creado", Nulo, "Creado"),
      _log(audit_context, APROBADO, "pedido_aprobado", BORRADOR, "Auto-aprobado al crear")>>

\* a gateway call of the request on path r failed
FalloGateway(r) ==
    /\ Fallo(r)
    /\ req[r].calls # <<>>
    /\ ~Last(req[r].calls).ok

\* C13: when a gateway call of crear fails, crear raises the failure of the
\* gateway, the failed call is the last call it made, and the order stays
\* stored in APROBADO with its lines and its two creation events and its
\* auto-approval event, with no oc_id and no reservation token.
C13_FalloGatewayCrear ==
    \A r \in Paths :
        (req[r].op = "crear" /\ FalloGateway(r)) =>
            LET q == req[r]
            IN  /\ q.resultado \in {ExcepcionGateway(f) : f \in GatewayFallas}
                /\ \A k \in 1..(Len(q.calls) - 1) : q.calls[k].ok
                /\ db[q.pid].existe
                /\ db[q.pid].estado = APROBADO
                /\ db[q.pid].items = q.payload.items
                /\ eventos[q.pid] = EventosHastaAprobado
                /\ db[q.pid].oc_id = Nulo
                /\ db[q.pid].reserva_token = <<>>

\* the second FEFO call of a VENTA fails after the first was answered
C13_Witness ==
    \E r \in Paths :
        /\ req[r].op = "crear"
        /\ FalloGateway(r)
        /\ Len(req[r].calls) = 2
        /\ req[r].calls[1].ok
        /\ db[req[r].pid].estado = APROBADO
        /\ Len(eventos[req[r].pid]) = 3

\* the step changes the state of the stored order id
Transicion(id) == db[id].existe /\ db'[id].estado # db[id].estado

\* C14: every step that changes the state of a stored order (the
\* auto-approval of crear, marcar_recibido, marcar_despachado, cancelar)
\* appends exactly one event to the order's events; the event's estado is
\* the new state, its "from" the state before the step, its "to" the new
\* state.
C14_UnEventoPorTransicion ==
    [][\A id \in PedidoIds :
          Transicion(id) =>
              /\ Len(eventos'[id]) = Len(eventos[id]) + 1
              /\ SubSeq(eventos'[id], 1, Len(eventos[id])) = eventos[id]
              /\ Last(eventos'[id]).estado = db'[id].estado
              /\ Last(eventos'[id]).from = db[id].estado
              /\ Last(eventos'[id]).to = db'[id].estado]_vars

\* an order created here was approved and then cancelled: two transitions,
\* each with its event
C14_Witness ==
    \E id \in PedidoIds :
        /\ db[id].estado = CANCELADO
        /\ Len(eventos[id]) >= 4
        /\ eventos[id][3].event = "pedido_aprobado"
        /\ eventos[id][3].from = BORRADOR
        /\ Last(eventos[id]).event = "pedido_cancelado"
        /\ Last(eventos[id]).from = APROBADO
        /\ Last(eventos[id]).to = CANCELADO

\* the side-effect events of crear
EventoOC == _log(audit_context, APROBADO, "oc_creada", Nulo, "OC creada y vinculada")
EventoFefo == _log(audit_context, APROBADO, "salida_fefo", Nulo, "Salida FEFO completada")

CrearExitoso(r) == Exito(r) /\ req[r].op = "crear"

\* C15 as stated: a successful crear has recorded four events: the
\* commitment-date note, the creation detail, the auto-approval, then one
\* side-effect event of its kind.
C15_Original ==
    \A r \in Paths :
        CrearExitoso(r) =>
            eventos[req[r].pid] =
                Append(EventosHastaAprobado,
                       IF req[r].p.tipo = COMPRA THEN EventoOC ELSE EventoFefo)

\* C15 (amended): a successful crear has recorded, in this order, the
\* commitment-date note, the creation detail and the auto-approval, then for
\* a VENTA the FEFO-completion event, and for a COMPRA the linked-PO event
\* when the purchase-order answer carried an id and nothing otherwise.
C15_EventosDeCrear ==
    \A r \in Paths :
        CrearExitoso(r) =>
            LET q == req[r]
                lateral ==
                    IF q.p.tipo = VENTA THEN <<EventoFefo>>
                    ELSE IF Respondidas(q.calls, P_OC)[1].resp # <<>>
                         THEN <<EventoOC>>
                    ELSE <<>>
            IN  eventos[q.pid] = EventosHastaAprobado \o lateral

C15_Witness ==
    \E r \in Paths :
        /\ CrearExitoso(r)
        /\ req[r].p.tipo = VENTA
        /\ Len(eventos[req[r].pid]) = 4
        /\ eventos[req[r].pid][1].message = "Fecha Compromiso Calculada"
        /\ eventos[req[r].pid][2].message = "Creado"
        /\ eventos[req[r].pid][3].event = "pedido_aprobado"
        /\ eventos[req[r].pid][4].event = "salida_fefo"

\* C16: the events of an order are append-only: in every step the events
\* recorded for each order before the step are a prefix of its events after
\* the step.
C16_SoloAgrega ==
    [][\A id \in PedidoIds : IsPrefix(eventos[id], eventos'[id])]_vars

\* an order with the events of its creation followed by the event of a
\* later operation
C16_Witness ==
    \E id \in PedidoIds :
        /\ Len(eventos[id]) = 5
        /\ SubSeq(eventos[id], 1, 3) = EventosHastaAprobado
        /\ eventos[id][4].event \in {"oc_creada", "salida_fefo"}
        /\ eventos[id][5].event \in
               {"pedido_recibido", "pedido_despachado", "pedido_cancelado"}

OpsTransicion == {"marcar_recibido", "marcar_despachado", "cancelar"}

\* C17: a step of marcar_recibido, marcar_despachado or cancelar leaves
\* every column of every order but estado as it was (lines, totals, code,
\* kind, commitment date, references, oc_id, reservation token) and appends
\* at most one event; an operation that has returned has changed the row
\* it read in estado only and has appended one event.
C17_SoloEstado ==
    [][\A r \in Paths :
          (req'[r] # req[r] /\ req'[r].op \in OpsTransicion) =>
              /\ \A id \in PedidoIds :
                     /\ db'[id] = [db[id] EXCEPT !.estado = db'[id].estado]
                     /\ \/ eventos'[id] = eventos[id]
                        \/ /\ Len(eventos'[id]) = Len(eventos[id]) + 1
                           /\ IsPrefix(eventos[id], eventos'[id])
              /\ Exito(r)' =>
                     LET q == req'[r]
                     IN  /\ db'[q.pid] = [q.leido EXCEPT !.estado = db'[q.pid].estado]
                         /\ q.p = db'[q.pid]
                         /\ q.commits = 1]_vars

\* a received order, its lines and totals as stored at creation
C17_Witness ==
    \E r \in Paths :
        /\ Exito(r)
        /\ req[r].op = "marcar_recibido"
        /\ req[r].calls # <<>>
        /\ db[req[r].pid].estado = RECIBIDO
        /\ db[req[r].pid].creado
        /\ db[req[r].pid].items = ItemsDe(2)
        /\ db[req[r].pid].totales = calcular_totales(ItemsDe(2))
        /\ db[req[r].pid].refs = RefsCompra

\* the positions of statement x in a trace
Posiciones(traza, x) == {k \in DOMAIN traza : traza[k] = x}

\* C18: in every crear that got past its validation, calcular_totales has
\* run exactly once, after the pass of the loop for each line of the
\* payload and before every commit; from the first commit on the stored
\* totals are those of all the lines.
C18_TotalesUnaVez ==
    \A r \in Paths :
        (req[r].op = "crear" /\ req[r].traza # <<>>) =>
            LET q == req[r]
                T == Posiciones(q.traza, "calcular_totales")
            IN  /\ Cardinality(T) = 1
                /\ \A t \in T :
                       /\ Cardinality({k \in Posiciones(q.traza, "item") : k < t})
                              = Len(q.payload.items)
                       /\ \A k \in Posiciones(q.traza, "item") : k < t
                       /\ \A c \in Posiciones(q.traza, "commit") : t < c
                /\ Cardinality(Posiciones(q.traza, "commit")) = q.commits
                /\ q.commits >= 1 =>
                       db[q.pid].totales = calcular_totales(q.payload.items)

\* a crear of two lines has returned: one computation, three commits, the
\* totals of both lines stored (subtotal 190.0000, tax 17.1000)
C18_Witness ==
    \E r \in Paths :
        /\ CrearExitoso(r)
        /\ Len(req[r].payload.items) = 2
        /\ Cardinality(Posiciones(req[r].traza, "calcular_totales")) = 1
        /\ Cardinality(Posiciones(req[r].traza, "commit")) = 3
        /\ db[req[r].pid].totales.subtotal = <<1900000>>
        /\ db[req[r].pid].totales.impuesto_total = <<171000>>
        /\ db[req[r].pid].totales.total = <<2071000>>

UnaSolaReferencia(tipo, refs) ==
    IF tipo = COMPRA
    THEN /\ refs.proveedor_id # Nulo
         /\ refs.bodega_destino_id # Nulo
         /\ refs.cliente_id = Nulo
         /\ refs.vendedor_id = Nulo
         /\ refs.bodega_origen_id = Nulo
    ELSE /\ refs.cliente_id # Nulo
         /\ refs.vendedor_id # Nulo
         /\ refs.bodega_origen_id # Nulo
         /\ refs.proveedor_id = Nulo
         /\ refs.bodega_destino_id = Nulo

\* the reference set of the kind is populated
ReferenciasPropias(tipo, refs) ==
    IF tipo = COMPRA
    THEN refs.proveedor_id # Nulo /\ refs.bodega_destino_id # Nulo
    ELSE /\ refs.cliente_id # Nulo
         /\ refs.vendedor_id # Nulo
         /\ refs.bodega_origen_id # Nulo

CreadosConUnaReferencia ==
    \A id \in PedidoIds :
        (db[id].existe /\ db[id].creado) =>
            UnaSolaReferencia(db[id].tipo, db[id].refs)

\* C20 as stated: every order crear has stored has exactly the reference
\* set of its kind, and every create request whose body does not have
\* exactly the reference set of its kind is rejected.
C20_Original ==
    /\ CreadosConUnaReferencia
    /\ \A r \in Paths :
           (Hecho(r) /\ req[r].op = "crear"
                /\ ~UnaSolaReferencia(req[r].cuerpo.tipo, req[r].cuerpo.refs)) =>
               Fallo(r)

\* C20 (amended): every order crear has stored has exactly the reference
\* set of its kind; a create request whose body lacks a reference of its
\* kind is rejected and stores nothing; the references of the other kind
\* in a body are not a reason for rejection: they are left out of the
\* order, which gets the body's references of its own kind.
C20_RefsSegunTipo ==
    /\ CreadosConUnaReferencia
    /\ \A r \in Paths :
           (Hecho(r) /\ req[r].op = "crear") =>
               LET q == req[r]
                   propias == ReferenciasPropias(q.cuerpo.tipo, q.cuerpo.refs)
               IN  /\ ~propias =>
                          /\ q.resultado.exc = "RequestValidationError"
                          /\ q.pid = 0
                          /\ q.commits = 0
                   /\ propias => q.resultado.exc # "RequestValidationError"
                   /\ Exito(r) =>
                          /\ propias
                          /\ db[q.pid].tipo = q.cuerpo.tipo
                          /\ \A f \in DOMAIN SinRefs :
                                 db[q.pid].refs[f] \in {q.cuerpo.refs[f], Nulo}

\* a COMPRA body that also names a customer, a salesperson and an origin
\* warehouse was accepted; the order has the supplier and the destination
\* warehouse only
C20_Witness ==
    \E r \in Paths :
        /\ CrearExitoso(r)
        /\ req[r].cuerpo.tipo = COMPRA
        /\ req[r].cuerpo.refs.cliente_id # Nulo
        /\ req[r].cuerpo.refs.proveedor_id # Nulo
        /\ db[req[r].pid].refs = RefsCompra

(***************************************************************************)
(* The commitment date                                                     *)
(***************************************************************************)
\* a create request whose body passed the validation of the route, for an
\* order of kind tipo, and whose call of crear has ended
CrearTerminado(r, tipo) ==
    /\ Hecho(r)
    /\ req[r].op = "crear"
    /\ Valida(req[r].cuerpo)
    /\ req[r].payload.tipo = tipo

\* the days the quoted lead times of the lines give: their maximum
DiasCotizados(payload) ==
    Max({LeadTimeCotizado(payload.refs.proveedor_id, payload.items[k].producto_id) :
            k \in DOMAIN payload.items})

\* C21: creating a COMPRA order without fecha_recepcion stores the order
\* with fecha_compromiso = today + the largest lead time the supplier
\* quotes for the products of its lines
C21_FechaCompraCalculada ==
    \A r \in Paths :
        (CrearTerminado(r, COMPRA) /\ req[r].payload.fecha = SinFecha)
            => /\ req[r].pid \in PedidoIds
               /\ db[req[r].pid].fecha_compromiso =
                      Fecha("hoy", DiasCotizados(req[r].payload))

\* the paths of the gateway calls the request on path r has made
PathsLlamados(r) == {req[r].calls[k].path : k \in DOMAIN req[r].calls}

\* C22: a COMPRA order created with fecha_recepcion gets that date as its
\* fecha_compromiso; crear asks for no lead time and the only gateway call
\* it makes is the purchase order
C22_FechaRecepcionExplicita ==
    \A r \in Paths :
        LET q == req[r] IN
        (/\ q.op = "crear"
         /\ q.pc # "crear"
         /\ Valida(q.cuerpo)
         /\ q.payload.tipo = COMPRA
         /\ q.payload.fecha # SinFecha)
            => /\ q.consultas = 0
               /\ PathsLlamados(r) \subseteq {P_OC}
               /\ q.pid \in PedidoIds
               /\ q.p.fecha_compromiso = q.payload.fecha
               /\ db[q.pid].existe => db[q.pid].fecha_compromiso = q.payload.fecha
               /\ Hecho(r) => db[q.pid].existe

C22_Witness ==
    /\ CrearTerminado("api", COMPRA)
    /\ Exito("api")
    /\ req["api"].payload.fecha = FechaCliente
    /\ Len(req["api"].payload.items) = MaxItems
    /\ db[req["api"].pid].fecha_compromiso = FechaCliente

\* C23: every valid VENTA body creates its order, with fecha_entrega as
\* fecha_compromiso when the body brings one and a date counted from today
\* otherwise
C23_FechaVenta ==
    \A r \in Paths :
        CrearTerminado(r, VENTA)
            => /\ req[r].pid \in PedidoIds
               /\ db[req[r].pid].existe
               /\ IF req[r].payload.fecha # SinFecha
                  THEN db[req[r].pid].fecha_compromiso = req[r].payload.fecha
                  ELSE db[req[r].pid].fecha_compromiso.base = "hoy"

(***************************************************************************)
(* The totals                                                              *)
(***************************************************************************)
\* an optional decimal as a whole number, None as zero
Num(v) == IF v = <<>> THEN 0 ELSE v[1]

RECURSIVE SumaDe(_)
SumaDe(s) == IF s = <<>> THEN 0 ELSE Head(s) + SumaDe(Tail(s))

\* the net amount and the tax of a line, in ten-thousandths:
\* price * quantity * (1 - discount/100), and that amount * tax/100
NetoLinea(it) ==
    Num(it.precio_unitario) * it.cantidad * (100 - Num(it.descuento_pct)) * 100
ImpuestoLinea(it) ==
    Num(it.precio_unitario) * it.cantidad * (100 - Num(it.descuento_pct))
        * Num(it.impuesto_pct)

\* C24: once calcular_totales has run on an order, subtotal is the sum of
\* the net amounts of its lines, impuesto_total the sum of their taxes and
\* total the sum of the two, a missing price or percentage counting as
\* zero; an order with no lines gets three zeros
C24_Totales ==
    (modo = "totales" /\ db[1].totales # SinTotales)
        => LET its == db[1].items
               sub == SumaDe([k \in DOMAIN its |-> NetoLinea(its[k])])
               imp == SumaDe([k \in DOMAIN its |-> ImpuestoLinea(its[k])])
           IN  /\ db[1].totales.subtotal = <<sub>>
               /\ db[1].totales.impuesto_total = <<imp>>
               /\ db[1].totales.total = <<sub + imp>>
               /\ its = <<>> => db[1].totales = [subtotal |-> <<0>>,
                                                 impuesto_total |-> <<0>>,
                                                 total |-> <<0>>]

\* an order of MaxItems lines, the first with a price, a discount and a
\* tax, the last with none of the three
C24_Witness ==
    /\ modo = "totales"
    /\ db[1].totales # SinTotales
    /\ Len(db[1].items) = MaxItems
    /\ db[1].items[1].precio_unitario = <<100>>
    /\ db[1].items[1].cantidad = 1
    /\ db[1].items[1].descuento_pct = <<10>>
    /\ db[1].items[1].impuesto_pct = <<15>>
    /\ db[1].items[MaxItems].precio_unitario = <<>>
    /\ db[1].items[MaxItems].descuento_pct = <<>>
    /\ db[1].items[MaxItems].impuesto_pct = <<>>
    /\ db[1].totales.subtotal = <<900000>>
    /\ db[1].totales.impuesto_total = <<135000>>

(***************************************************************************)
(* The Pub/Sub handler                                                     *)
(***************************************************************************)
\* the handler has ended on a push
PushTerminado == Hecho("pubsub") /\ req["pubsub"].sobre # NoSobre

\* C25: every push is answered 204, whatever the envelope holds and
\* whatever the dispatched operation raises
C25_Siempre204 == PushTerminado => Respuesta = 204

\* the operation each event name is dispatched to
OperacionDe(event) ==
    CASE event = "pedido_recibido" -> "marcar_recibido"
      [] event = "pedido_despachado" -> "marcar_despachado"
      [] event = "pedido_cancelado" -> "cancelar"
      [] OTHER -> Nulo

\* C26: a push whose event is decoded and names an order makes exactly one
\* service call, of the operation of its event name with the pedido_id of
\* the event (marcar_recibido and marcar_despachado with the resolved
\* country, cancelar with none); an event of any other name makes no call.
\* The request on path "pubsub" runs that operation on that order.
C26_Despacho ==
    LET q == req["pubsub"]
        e == q.sobre
    IN  (q.pc # "idle" /\ ~Decodificar(e).fin /\ e.pedido_id # 0)
            => IF OperacionDe(e.event) = Nulo
               THEN q.servicio = <<>> /\ q.op = Nulo /\ Hecho("pubsub")
               ELSE /\ q.servicio =
                         <<Invocacion(OperacionDe(e.event), e.pedido_id,
                                      IF e.event = "pedido_cancelado" THEN Nulo
                                      ELSE q.schema)>>
                    /\ q.op = OperacionDe(e.event)
                    /\ q.pid = e.pedido_id

C26_Witness ==
    /\ Exito("pubsub")
    /\ req["pubsub"].sobre.event = "pedido_despachado"
    /\ req["pubsub"].servicio =
           <<Invocacion("marcar_despachado", 1, settings.DEFAULT_SCHEMA)>>
    /\ db[1].estado = DESPACHADO

\* C27: a push whose body is not a JSON object, has no message, whose
\* message is not an object or has no data, whose data cannot be decoded
\* to an event object, or whose event has no name ends the handler at
\* once: no session is opened, no service call is made, and no order and
\* no recorded event changes.
C27_PushMalformado ==
    [][\A e \in Sobres :
          ( /\ req["pubsub"].pc = "idle"
            /\ req'["pubsub"].pc # "idle"
            /\ req'["pubsub"].sobre = e
            /\ (e.forma \in FormasSinEvento \/ e.event = Nulo) ) =>
              /\ req'["pubsub"].pc = "done"
              /\ req'["pubsub"].schema = Nulo
              /\ req'["pubsub"].servicio = <<>>
              /\ req'["pubsub"].op = Nulo
              /\ req'["pubsub"].calls = <<>>
              /\ req'["pubsub"].commits = 0
              /\ db' = db
              /\ eventos' = eventos]_vars

\* the handler has ended on a push without data, with an APROBADO order
\* stored, and nothing was opened or called
C27_Witness ==
    /\ PushTerminado
    /\ req["pubsub"].sobre.forma = "sin_data"
    /\ req["pubsub"].schema = Nulo
    /\ req["pubsub"].servicio = <<>>
    /\ db[1].existe
    /\ db[1].estado = APROBADO

\* C28: the session of a dispatched push is opened on the country of the
\* ctx of the event if it has one, else on the top-level country of the
\* event if it has one, else on settings.DEFAULT_SCHEMA; the country
\* marcar_recibido and marcar_despachado are called with is that value.
C28_PaisResuelto ==
    LET q == req["pubsub"]
        e == q.sobre
        pais == CASE e.ctx_country # Nulo -> e.ctx_country
                  [] e.ctx_country = Nulo /\ e.country # Nulo -> e.country
                  [] OTHER -> settings.DEFAULT_SCHEMA
    IN  (q.pc # "idle" /\ ~Decodificar(e).fin)
            => /\ q.schema = pais
               /\ \A k \in DOMAIN q.servicio :
                     q.servicio[k].op \in {"marcar_recibido", "marcar_despachado"}
                         => q.servicio[k].x_country = pais
               /\ q.op \in {"marcar_recibido", "marcar_despachado"}
                     => q.x_country = pais

\* a dispatch whose event has both countries: the one of ctx is used
C28_Witness ==
    /\ Exito("pubsub")
    /\ req["pubsub"].sobre.ctx_country = "co"
    /\ req["pubsub"].sobre.country = "mx"
    /\ req["pubsub"].op = "marcar_despachado"
    /\ req["pubsub"].schema = "co"
    /\ req["pubsub"].x_country = "co"

(***************************************************************************)
(* Concurrent requests                                                     *)
(***************************************************************************)
\* the state each transition operation writes
EstadoDestino(op) ==
    CASE op = "marcar_recibido" -> RECIBIDO
      [] op = "marcar_despachado" -> DESPACHADO
      [] op = "cancelar" -> CANCELADO

\* C29: with the two entry paths running independently, the commit of a
\* transition call that has passed its guard goes through whatever has
\* been committed to the order since the guard read it: it writes the
\* state of its operation over the current one (the last write wins) and
\* records the state its guard read as the prior state.  No lock and no
\* version check stops it.
C29_SinBloqueo ==
    [][\A r \in Paths :
          ( /\ req[r].pc = "commit"
            /\ req[r].op \in {"marcar_recibido", "marcar_despachado", "cancelar"}
            /\ req'[r] # req[r] ) =>
              /\ req'[r].pc = "refresh"
              /\ db'[req[r].pid].estado = EstadoDestino(req[r].op)
              /\ Len(eventos'[req[r].pid]) = Len(eventos[req[r].pid]) + 1
              /\ Last(eventos'[req[r].pid]).from = req[r].prev
              /\ Last(eventos'[req[r].pid]).to = EstadoDestino(req[r].op)]_vars

\* a cancel through the API and a dispatch through Pub/Sub of the same
\* APROBADO VENTA order have both passed their guard on APROBADO and both
\* committed; the order is in the state of the one that committed last
C29_Witness ==
    /\ modo = "conc"
    /\ Exito("api")
    /\ Exito("pubsub")
    /\ req["api"].op = "cancelar"
    /\ req["pubsub"].op = "marcar_despachado"
    /\ req["api"].pid = req["pubsub"].pid
    /\ req["api"].leido.estado = APROBADO
    /\ req["pubsub"].leido.estado = APROBADO
    /\ req["api"].leido.tipo = VENTA
    /\ LET evs == eventos[req["api"].pid]
           n == Len(evs)
       IN  /\ n >= 2
           /\ evs[n - 1].from = APROBADO
           /\ evs[n - 1].to = CANCELADO
           /\ evs[n].from = APROBADO
           /\ evs[n].to = DESPACHADO
           /\ db[req["api"].pid].estado = DESPACHADO

(***************************************************************************)
(* The operations without external effects                                 *)
(***************************************************************************)
\* C30: no step of a marcar_despachado or of a cancelar makes a gateway
\* call or changes the reserva_token or the oc_id of any order: the FEFO
\* reservations of a cancelled VENTA order and the purchase order of a
\* cancelled COMPRA order stay as they were.
C30_SinEfectosExternos ==
    [][\A r \in Paths :
          ( /\ req'[r] # req[r]
            /\ \/ req[r].op \in {"marcar_despachado", "cancelar"}
               \/ req'[r].op \in {"marcar_despachado", "cancelar"} ) =>
              /\ req[r].calls = <<>>
              /\ req'[r].calls = <<>>
              /\ \A id \in PedidoIds :
                    /\ db'[id].reserva_token = db[id].reserva_token
                    /\ db'[id].oc_id = db[id].oc_id]_vars

\* a VENTA order created with its FEFO reservations has been cancelled
\* and still holds its reservation token
C30_Witness ==
    \E r \in Paths :
        /\ Exito(r)
        /\ req[r].op = "cancelar"
        /\ req[r].calls = <<>>
        /\ db[req[r].pid].tipo = VENTA
        /\ db[req[r].pid].creado
        /\ db[req[r].pid].estado = CANCELADO
        /\ db[req[r].pid].reserva_token = Join(<<TokenDe(<<"a">>), TokenDe(<<>>)>>)

(***************************************************************************)
(* marcar_recibido and the inventory                                       *)
(***************************************************************************)
\* C31: a marcar_recibido called without x_country (the REST route) on a
\* COMPRA order in APROBADO or EN_TRANSITO makes no gateway call at any
\* step, and when it ends it has succeeded and the order is RECIBIDO.
C31_RecibidoSinPais ==
    \A r \in Paths :
        LET q == req[r] IN
        (/\ q.op = "marcar_recibido"
         /\ q.x_country = Nulo
         /\ q.leido.existe
         /\ q.leido.tipo = COMPRA
         /\ q.leido.estado \in {APROBADO, EN_TRANSITO})
            => /\ q.calls = <<>>
               /\ q.pc \in {"commit", "refresh", "done"}
               /\ Hecho(r) => /\ Exito(r)
                              /\ db[q.pid].estado = RECIBIDO
                              /\ Last(eventos[q.pid]).to = RECIBIDO

C31_Witness ==
    /\ Exito("api")
    /\ req["api"].op = "marcar_recibido"
    /\ req["api"].x_country = Nulo
    /\ req["api"].leido.estado = EN_TRANSITO
    /\ Len(req["api"].leido.items) = MaxItems
    /\ req["api"].calls = <<>>
    /\ db[req["api"].pid].estado = RECIBIDO

(***************************************************************************)
(* The ctx entry of the events                                             *)
(***************************************************************************)
\* C32: the event appended by an operation dispatched from a push whose
\* ctx carries a country and a user_id records those two values in its
\* ctx entry
C32_CtxDelEvento ==
    LET q == req["pubsub"] IN
    (/\ Exito("pubsub")
     /\ q.op \in {"marcar_recibido", "marcar_despachado", "cancelar"}
     /\ q.sobre.ctx_country # Nulo)
        => Last(eventos[q.pid]).ctx =
               [country |-> q.sobre.ctx_country, user_id |-> q.sobre.ctx_user_id]

\* C33: a marcar_recibido called with a country leaves the order RECIBIDO
\* only after the three calls of every line were answered; when one of
\* them fails the call raises the failure of the gateway, nothing is
\* committed, the order is in the state the guard read and its events are
\* the ones it had, none of them a "pedido_recibido".
C33_RecibidoSoloSiTodoResponde ==
    \A r \in Paths :
        LET q == req[r] IN
        (q.op = "marcar_recibido" /\ q.x_country # Nulo /\ q.schema = settings.DEFAULT_SCHEMA) =>
            /\ (q.pid \in PedidoIds /\ db[q.pid].estado = RECIBIDO /\ q.leido.estado # RECIBIDO)
                   => /\ Len(q.calls) = 3 * Len(q.leido.items)
                      /\ \A k \in DOMAIN q.calls : q.calls[k].ok
            /\ FalloGateway(r)
                   => /\ q.resultado \in {ExcepcionGateway(f) : f \in GatewayFallas}
                      /\ q.commits = 0
                      /\ q.leido.estado \in {APROBADO, EN_TRANSITO}
                      /\ db[q.pid] = q.leido
                      /\ \A k \in DOMAIN eventos[q.pid] :
                            /\ eventos[q.pid][k].event # "pedido_recibido"
                            /\ eventos[q.pid][k].to # RECIBIDO

\* the receipt of the second line fails after the first line was received
C33_Witness ==
    \E r \in Paths :
        /\ req[r].op = "marcar_recibido"
        /\ FalloGateway(r)
        /\ Len(req[r].calls) = 6
        /\ Last(req[r].calls).path = P_ENTRADA
        /\ db[req[r].pid].estado = EN_TRANSITO

\* C34: over the whole life of an order the inventory service registers
\* the receipt of each of its lines at most once
C34_EntradaUnaVez ==
    \A id \in PedidoIds : \A k \in 1..MaxItems : entradas[id][k] <= 1

(***************************************************************************)
(* A FEFO call of crear fails                                              *)
(***************************************************************************)
\* C35: when the k-th FEFO call of a crear of a VENTA order fails, the
\* k-1 calls before it were answered, each for its line in line order, the
\* failed call is the last one crear makes, the tokens received are held
\* by the request only, and the stored order is APROBADO with no
\* reservation token and no "salida_fefo" event.
C35_FalloFefo ==
    \A r \in Paths :
        LET q == req[r]
            k == Len(q.calls)
        IN  (/\ q.op = "crear"
             /\ q.payload.tipo = VENTA
             /\ q.calls # <<>>
             /\ ~Last(q.calls).ok)
                => /\ Fallo(r)
                   /\ k <= Len(q.payload.items)
                   /\ \A j \in 1..k : q.calls[j].path = P_FEFO /\ q.calls[j].idx = j
                   /\ \A j \in 1..(k - 1) : q.calls[j].ok
                   /\ Len(q.tokens) = k - 1
                   /\ db[q.pid].estado = APROBADO
                   /\ db[q.pid].reserva_token = <<>>
                   /\ \A j \in DOMAIN eventos[q.pid] :
                         eventos[q.pid][j].event # "salida_fefo"

\* the second FEFO call fails after the first returned the token "a"
C35_Witness ==
    \E r \in Paths :
        /\ Fallo(r)
        /\ req[r].op = "crear"
        /\ req[r].payload.tipo = VENTA
        /\ Len(req[r].calls) = 2
        /\ req[r].calls[1].ok
        /\ ~req[r].calls[2].ok
        /\ req[r].tokens = <<TokenDe(<<"a">>)>>
        /\ db[req[r].pid].reserva_token = <<>>
        /\ db[req[r].pid].estado = APROBADO

(***************************************************************************)
(* The event log and the state of the order                                *)
(***************************************************************************)
\* the events of a log that record a transition: the ones with a prior state
TransicionesDe(evs) == SelectSeq(evs, LAMBDA e : e.from # Nulo)

\* C36: with requests served one at a time, the state recorded by the
\* latest event of an order is the state of the order, and every
\* transition event starts from the state the transition event before it
\* led to.
C36_LogCoherente ==
    \A id \in PedidoIds :
        (db[id].existe /\ eventos[id] # <<>>) =>
            LET ts == TransicionesDe(eventos[id])
            IN  /\ Last(eventos[id]).estado = db[id].estado
                /\ Last(eventos[id]).to = db[id].estado
                /\ \A k \in 2..Len(ts) : ts[k].from = ts[k - 1].to

\* an order created here and then cancelled: two transition events
C36_Witness ==
    \E id \in PedidoIds :
        /\ db[id].creado
        /\ db[id].estado = CANCELADO
        /\ \A r \in Paths : req[r].pc = "idle"
        /\ Len(TransicionesDe(eventos[id])) = 2
        /\ TransicionesDe(eventos[id])[1].to = APROBADO
        /\ TransicionesDe(eventos[id])[2].from = APROBADO

(***************************************************************************)
(* Final states                                                            *)
(***************************************************************************)
EstadosFinales == {RECIBIDO, DESPACHADO, CANCELADO}

\* the events of an order that record a transition into a final state
EventosFinales(id) ==
    {k \in DOMAIN eventos[id] :
        eventos[id][k].from # Nulo /\ eventos[id][k].to \in EstadosFinales}

AprobacionGuardada(id) ==
    \E k \in DOMAIN eventos[id] : eventos[id][k].event = "pedido_aprobado"

C39_VinculosPorTipo ==
    /\ \A id \in PedidoIds :
          /\ db[id].oc_id # Nulo =>
                 db[id].tipo = COMPRA /\ AprobacionGuardada(id)
          /\ db[id].reserva_token # <<>> =>
                 db[id].tipo = VENTA /\ AprobacionGuardada(id)
    /\ \A r \in Paths :
          /\ req[r].p.oc_id # Nulo =>
                 req[r].p.tipo = COMPRA /\ AprobacionGuardada(req[r].p.id)
          /\ (req[r].tokens # <<>> \/ req[r].p.reserva_token # <<>>) =>
                 req[r].p.tipo = VENTA /\ AprobacionGuardada(req[r].p.id)

\* a COMPRA order with its oc_id stored
C39_Witness ==
    \E id \in PedidoIds :
        /\ db[id].tipo = COMPRA /\ db[id].oc_id = "oc1"
        /\ db[id].estado = APROBADO

\* a VENTA order with its reserva_token stored
C39_WitnessVenta ==
    \E id \in PedidoIds :
        /\ db[id].tipo = VENTA /\ db[id].reserva_token # <<>>
        /\ db[id].estado = APROBADO

\* the steps of the handler that serves the request on path r: the route
\* calls the service synchronously, so a request that was accepted is
\* carried through its steps until it returns or raises, and the response
\* is sent
Atender(r) ==
    \/ crear(r)
    \/ Crear_Commit1(r)
    \/ Crear_Commit2(r)
    \/ Crear_OC(r)
    \/ Crear_Fefo(r)
    \/ Crear_Commit3(r)
    \/ MarcarRecibido_Lote(r)
    \/ MarcarRecibido_Ubicacion(r)
    \/ MarcarRecibido_Entrada(r)
    \/ MarcarRecibido_Commit(r)
    \/ MarcarDespachado_Commit(r)
    \/ Cancelar_Commit(r)
    \/ Refresh(r)
    \/ Responder(r)

\* requests are served one at a time and every handler keeps running; a
\* gateway call is answered (with success or a failure) or fails in
\* transport, it never hangs
SpecJusto == Init /\ [][Next]_vars /\ \A r \in Paths : WF_vars(Atender(r))

\* PedidosService.crear has been called on path r and has not run yet
CrearIniciado(r) == req[r].op = "crear" /\ req[r].pc = "crear"

\* every gateway call the request on path r made was answered with success
LlamadasOk(r) == \A k \in DOMAIN req[r].calls : req[r].calls[k].ok

\* the gateway calls of a completed orchestration: one POST
\* /v1/ordenes-compra for a COMPRA, one FEFO call per line for a VENTA
LlamadasCompletas(r) ==
    LET q == req[r]
    IN  IF q.p.tipo = COMPRA
        THEN Len(q.calls) = 1 /\ q.calls[1].path = P_OC
        ELSE /\ Len(q.calls) = Len(q.p.items)
             /\ \A k \in DOMAIN q.calls :
                    q.calls[k].path = P_FEFO /\ q.calls[k].idx = k

\* crear on path r has returned the order, APROBADO, with its orchestration
\* complete
CrearCompleto(r) ==
    /\ Exito(r)
    /\ req[r].op = "crear"
    /\ req[r].p.estado = APROBADO
    /\ db[req[r].pid].estado = APROBADO
    /\ LlamadasCompletas(r)

\* C40 as stated: every started crear ends, and when every gateway call it
\* made was answered with success it has made one purchase-order call (or
\* one FEFO call per line) and returns the order in APROBADO
C40_Original ==
    \A r \in Paths :
        CrearIniciado(r) ~> (Hecho(r) /\ (LlamadasOk(r) => CrearCompleto(r)))

\* C40 for the bodies that name their date: a started crear ends, and with
\* every gateway call answered with success it returns the order in
\* APROBADO with its orchestration complete
C40_CrearConFechaTermina ==
    \A r \in Paths :
        (CrearIniciado(r) /\ req[r].payload.fecha # SinFecha)
            ~> (Hecho(r) /\ (LlamadasOk(r) => CrearCompleto(r)))

\* the request on path r stands at a receipt the inventory registry of the
\* model has no room left for
EntradasAgotadas(r) ==
    /\ req[r].pc = "entrada"
    /\ entradas[req[r].p.id][req[r].i] = MaxEntradas

\* C40, the part about blocking: every request a handler has started on
\* ends, whatever its gateway calls answer (short of the number of
\* receipts the registry holds)
C40_NadaQuedaBloqueado ==
    \A r \in Paths :
        (req[r].pc # "idle") ~> (Hecho(r) \/ EntradasAgotadas(r))

\* a crear whose gateway calls were all answered with success has returned
C40_Witness ==
    \E r \in Paths :
        /\ CrearCompleto(r)
        /\ req[r].calls # <<>>
        /\ LlamadasOk(r)

\* a started crear with no gateway call at all has ended without an order
C40_WitnessSinFecha ==
    \E r \in Paths :
        /\ Fallo(r)
        /\ req[r].op = "crear"
        /\ req[r].payload.fecha = SinFecha
        /\ req[r].calls = <<>>
        /\ req[r].resultado.exc = "AttributeError"

====
